---- MODULE Spec2Model ----
(***************************************************************************)
(* A model of the request handlers of the seller-assistant backend          *)
(* (src/backend): the planner report behind one asyncio lock, the           *)
(* dashboard summary with its one-shot rate-limit retry and static          *)
(* fallback, the per-city trend analysis with its percentage bucketing,     *)
(* the feature-image search, the listing generation with its concurrent     *)
(* sub-generations, and the parsing, validation and date handling of one    *)
(* planner report.                                                          *)
(*                                                                         *)
(* Each endpoint has its own specification over the shared variables; the  *)
(* variables of the other endpoints stay at their initial values.  A        *)
(* handler is cut into steps at its outbound calls and waits: a step runs   *)
(* from one such point to the next.  The specifications let the handlers    *)
(* of different requests interleave at every one of these points, which is *)
(* a superset of the schedules of one event loop (planner_routes.py:284     *)
(* calls the provider synchronously, dashboard_routes.py:108 sleeps         *)
(* synchronously), so what holds here holds of every schedule of the code.  *)
(* SpecLoop is the exception: it runs the async handlers on one event loop, *)
(* whose thread a synchronous call keeps.                                   *)
(* Client disconnects (task cancellation) are not modelled.                 *)
(*                                                                         *)
(* Percentages are integers in tenths of a percent (45.2 is 452): the code  *)
(* rounds every percentage to one decimal place before it uses it.          *)
(* Texts are sequences of one-character strings.                            *)
(***************************************************************************)
EXTENDS Integers, Sequences, FiniteSets, TLC

VARIABLES
    \* planner_routes.py
    lock,          \* the module-level asyncio.Lock: [locked, waiters, woken]
    ppc,           \* position of each /full-report handler
    presp,         \* response of each /full-report handler
    served,        \* history: the requests in the order they entered the section
    pwaited,       \* history: the requests that had to wait for the lock
    \* dashboard_routes.py
    groq_model,    \* dashboard's module-level model: TRUE when it was constructed
    spc,           \* position of each /summary handler
    calls,         \* chain.ainvoke calls each /summary handler has begun
    slept,         \* seconds each /summary handler has spent in time.sleep
    err1,          \* str(e) of the first invocation's exception (<<>> when none)
    err2,          \* str(e) of the retry's exception (<<>> when none)
    sresp,         \* response of each /summary handler
    \* trends_routes.py
    tpc,           \* position of the trends handler
    cities,        \* request.cities
    ti,            \* the city the loop of get_trends is at
    all_trends,    \* all_trends
    tlog,          \* history: per city, what its search and model call did
    cleaned,       \* history: per city, what clean_json_response returned
    \* the percentage bucketing on its own
    bpct,          \* a percentage, in tenths
    bout,          \* what the two copies of the bucketing make of it
    \* product_listing_routes.py
    lpc,           \* position of the listing handler
    content_options, \* json.loads(content_options_str): [valid, requested]
    image_description, \* "" without an image, else what the analysis returned
    tasks,         \* per content type: "none", "pending", or the task's result
    final_content, \* the response: status and which of the three slots are set
    \* trends_routes.py, get_feature_images
    ipc,           \* position of the feature-images handler
    image_results, \* results.get("images_results", []) of the image search
    iresp,         \* the response: [error, images]
    \* planner_routes.py, the report of one /full-report request
    rpc,           \* position of the handler
    today,         \* datetime.now().date(): [y, m, d]
    completion,    \* history: the JSON the model answered with
    report         \* the response: [status, plan]

plannerVars == <<lock, ppc, presp, served, pwaited>>
summaryVars == <<groq_model, spc, calls, slept, err1, err2, sresp>>

trendsVars == <<tpc, cities, ti, all_trends, tlog, cleaned>>
bucketVars == <<bpct, bout>>
listingVars == <<lpc, content_options, image_description, tasks, final_content>>

imagesVars == <<ipc, image_results, iresp>>

reportVars == <<rpc, today, completion, report>>

vars == <<plannerVars, summaryVars, trendsVars, bucketVars, listingVars, imagesVars,
          reportVars>>

----------------------------------------------------------------------------
(* Planner report: GET /full-report, planner_routes.py                      *)

NumPlannerReq == 3

PReqs == 1..NumPlannerReq

\* What the provider call and the validation after it can do.
PlannerOutcomes == {"report", "provider_error", "validation_error"}

InitPlanner ==
    /\ lock = [locked |-> FALSE, waiters |-> <<>>, woken |-> {}]
    /\ ppc = [r \in PReqs |-> "idle"]
    /\ presp = [r \in PReqs |-> "none"]
    /\ served = <<>>
    /\ pwaited = {}

RemoveFirst(s, x) ==
    LET i == CHOOSE j \in 1..Len(s) : s[j] = x /\ \A k \in 1..(j - 1) : s[k] # x
    IN  SubSeq(s, 1, i - 1) \o SubSeq(s, i + 1, Len(s))

\* A lock made anew for every request is free for every request.
LockFree_PerRequestLock(l) == TRUE

\* asyncio.Lock.acquire takes the lock at once only when it is not held and
\* nobody is queued for it.
LockFree(l) == ~l.locked /\ l.waiters = <<>>

\* asyncio.Lock.release: the lock is free and the first waiter's future is set.
Release(l) ==
    [l EXCEPT !.locked = FALSE,
              !.woken = IF l.waiters = <<>> THEN @ ELSE @ \cup {Head(l.waiters)}]

\* A hand-written acquire/release pair without try/finally keeps the lock
\* when the body raises.
ExitLock_KeptOnRaise(l, raised) == IF raised THEN l ELSE Release(l)

\* Leaving "async with lock" releases the lock, on return and on raise alike.
ExitLock(l, raised) == Release(l)

\* The handler up to its provider call: the groq_model check, lock.acquire
\* (at once, or queued behind the holder), then chain.invoke begins.
PlannerStart(r) ==
    /\ ppc[r] = "idle"
    /\ IF LockFree(lock)
       THEN /\ lock' = [lock EXCEPT !.locked = TRUE]
            /\ ppc' = [ppc EXCEPT ![r] = "invoking"]
            /\ served' = Append(served, r)
            /\ UNCHANGED pwaited
       ELSE /\ lock' = [lock EXCEPT !.waiters = Append(@, r)]
            /\ ppc' = [ppc EXCEPT ![r] = "waiting"]
            /\ pwaited' = pwaited \cup {r}
            /\ UNCHANGED served
    /\ UNCHANGED <<presp, summaryVars, trendsVars, bucketVars, listingVars, imagesVars, reportVars>>

\* A queued handler whose future was set resumes: it leaves the queue, takes
\* the lock and begins its provider call.
PlannerWake(r) ==
    /\ ppc[r] = "waiting"
    /\ r \in lock.woken
    /\ lock' = [locked |-> TRUE,
                waiters |-> RemoveFirst(lock.waiters, r),
                woken |-> lock.woken \ {r}]
    /\ ppc' = [ppc EXCEPT ![r] = "invoking"]
    /\ served' = Append(served, r)
    /\ UNCHANGED <<presp, pwaited, summaryVars, trendsVars, bucketVars, listingVars, imagesVars, reportVars>>

\* The provider call returns or raises; the rest of the body runs, the lock
\* is left and the handler answers: the report, or HTTP 500 for any exception.
PlannerReturn(r, out) ==
    /\ ppc[r] = "invoking"
    /\ presp' = [presp EXCEPT ![r] = IF out = "report" THEN "report" ELSE "500"]
    /\ lock' = ExitLock(lock, out # "report")
    /\ ppc' = [ppc EXCEPT ![r] = "done"]
    /\ UNCHANGED <<served, pwaited, summaryVars, trendsVars, bucketVars, listingVars, imagesVars, reportVars>>

NextPlanner ==
    \E r \in PReqs :
        \/ PlannerStart(r)
        \/ PlannerWake(r)
        \/ \E out \in PlannerOutcomes : PlannerReturn(r, out)

----------------------------------------------------------------------------
(* Texts                                                                    *)

\* str.lower() is written out here for the characters a string of this
\* module can be written with: the characters of ASCII (but the quotation
\* mark, the backslash and the grave accent) and of Latin-1, and the
\* characters of the rest of the Basic Multilingual Plane whose code point
\* ends in a byte of 80 to FF.  A text is made of these.  UpperChars are the
\* ones of them whose lower case is another character, and LowerChars are
\* their lower cases, place by place; a lower case that cannot be written
\* here stands as its code point, "U+0253" for the one character U+0253.
\* U+0130, the one character whose lower case is two characters, is not
\* among the characters of a text.
UpperChars ==
    << "A", "B", "C", "D", "E", "F", "G", "H", "I", "J", "K", "L",
       "M", "N", "O", "P", "Q", "R", "S", "T", "U", "V", "W", "X",
       "Y", "Z", "À", "Á", "Â", "Ã", "Ä", "Å", "Æ", "Ç", "È", "É",
       "Ê", "Ë", "Ì", "Í", "Î", "Ï", "Ð", "Ñ", "Ò", "Ó", "Ô", "Õ",
       "Ö", "Ø", "Ù", "Ú", "Û", "Ü", "Ý", "Þ", "Ɓ", "Ƃ", "Ƅ", "Ɔ",
       "Ƈ", "Ɖ", "Ɗ", "Ƌ", "Ǝ", "Ə", "Ɛ", "Ƒ", "Ɠ", "Ɣ", "Ɩ", "Ɨ",
       "Ƙ", "Ɯ", "Ɲ", "Ɵ", "Ơ", "Ƣ", "Ƥ", "Ʀ", "Ƨ", "Ʃ", "Ƭ", "Ʈ",
       "Ư", "Ʊ", "Ʋ", "Ƴ", "Ƶ", "Ʒ", "Ƹ", "Ƽ", "Ǆ", "ǅ", "Ǉ", "ǈ",
       "Ǌ", "ǋ", "Ǎ", "Ǐ", "Ǒ", "Ǔ", "Ǖ", "Ǘ", "Ǚ", "Ǜ", "Ǟ", "Ǡ",
       "Ǣ", "Ǥ", "Ǧ", "Ǩ", "Ǫ", "Ǭ", "Ǯ", "Ǳ", "ǲ", "Ǵ", "Ƕ", "Ƿ",
       "Ǹ", "Ǻ", "Ǽ", "Ǿ", "Ά", "Έ", "Ή", "Ί", "Ό", "Ύ", "Ώ", "Α",
       "Β", "Γ", "Δ", "Ε", "Ζ", "Η", "Θ", "Ι", "Κ", "Λ", "Μ", "Ν",
       "Ξ", "Ο", "Π", "Ρ", "Τ", "Υ", "Φ", "Χ", "Ψ", "Ω", "Ϊ", "Ϋ",
       "Ϗ", "Ϙ", "Ϛ", "Ϝ", "Ϟ", "Ϡ", "Ϣ", "Ϥ", "Ϧ", "Ϩ", "Ϫ", "Ϭ",
       "Ϯ", "ϴ", "Ϸ", "Ϲ", "Ϻ", "Ͻ", "Ͼ", "Ͽ", "Ҁ", "Ҋ", "Ҍ", "Ҏ",
       "Ґ", "Ғ", "Ҕ", "Җ", "Ҙ", "Қ", "Ҝ", "Ҟ", "Ҡ", "Ң", "Ҥ", "Ҧ",
       "Ҩ", "Ҫ", "Ҭ", "Ү", "Ұ", "Ҳ", "Ҵ", "Ҷ", "Ҹ", "Һ", "Ҽ", "Ҿ",
       "Ӏ", "Ӂ", "Ӄ", "Ӆ", "Ӈ", "Ӊ", "Ӌ", "Ӎ", "Ӑ", "Ӓ", "Ӕ", "Ӗ",
       "Ә", "Ӛ", "Ӝ", "Ӟ", "Ӡ", "Ӣ", "Ӥ", "Ӧ", "Ө", "Ӫ", "Ӭ", "Ӯ",
       "Ӱ", "Ӳ", "Ӵ", "Ӷ", "Ӹ", "Ӻ", "Ӽ", "Ӿ", "Ⴀ", "Ⴁ", "Ⴂ", "Ⴃ",
       "Ⴄ", "Ⴅ", "Ⴆ", "Ⴇ", "Ⴈ", "Ⴉ", "Ⴊ", "Ⴋ", "Ⴌ", "Ⴍ", "Ⴎ", "Ⴏ",
       "Ⴐ", "Ⴑ", "Ⴒ", "Ⴓ", "Ⴔ", "Ⴕ", "Ⴖ", "Ⴗ", "Ⴘ", "Ⴙ", "Ⴚ", "Ⴛ",
       "Ⴜ", "Ⴝ", "Ⴞ", "Ⴟ", "Ⴠ", "Ⴡ", "Ⴢ", "Ⴣ", "Ⴤ", "Ⴥ", "Ⴧ", "Ⴭ",
       "Ꭰ", "Ꭱ", "Ꭲ", "Ꭳ", "Ꭴ", "Ꭵ", "Ꭶ", "Ꭷ", "Ꭸ", "Ꭹ", "Ꭺ", "Ꭻ",
       "Ꭼ", "Ꭽ", "Ꭾ", "Ꭿ", "Ꮀ", "Ꮁ", "Ꮂ", "Ꮃ", "Ꮄ", "Ꮅ", "Ꮆ", "Ꮇ",
       "Ꮈ", "Ꮉ", "Ꮊ", "Ꮋ", "Ꮌ", "Ꮍ", "Ꮎ", "Ꮏ", "Ꮐ", "Ꮑ", "Ꮒ", "Ꮓ",
       "Ꮔ", "Ꮕ", "Ꮖ", "Ꮗ", "Ꮘ", "Ꮙ", "Ꮚ", "Ꮛ", "Ꮜ", "Ꮝ", "Ꮞ", "Ꮟ",
       "Ꮠ", "Ꮡ", "Ꮢ", "Ꮣ", "Ꮤ", "Ꮥ", "Ꮦ", "Ꮧ", "Ꮨ", "Ꮩ", "Ꮪ", "Ꮫ",
       "Ꮬ", "Ꮭ", "Ꮮ", "Ꮯ", "Ꮰ", "Ꮱ", "Ꮲ", "Ꮳ", "Ꮴ", "Ꮵ", "Ꮶ", "Ꮷ",
       "Ꮸ", "Ꮹ", "Ꮺ", "Ꮻ", "Ꮼ", "Ꮽ", "Ꮾ", "Ꮿ", "Ᏸ", "Ᏹ", "Ᏺ", "Ᏻ",
       "Ᏼ", "Ᏽ", "Ა", "Ბ", "Გ", "Დ", "Ე", "Ვ", "Ზ", "Თ", "Ი", "Კ",
       "Ლ", "Მ", "Ნ", "Ო", "Პ", "Ჟ", "Რ", "Ს", "Ტ", "Უ", "Ფ", "Ქ",
       "Ღ", "Ყ", "Შ", "Ჩ", "Ც", "Ძ", "Წ", "Ჭ", "Ხ", "Ჯ", "Ჰ", "Ჱ",
       "Ჲ", "Ჳ", "Ჴ", "Ჵ", "Ჶ", "Ჷ", "Ჸ", "Ჹ", "Ჺ", "Ჽ", "Ჾ", "Ჿ",
       "Ẁ", "Ẃ", "Ẅ", "Ẇ", "Ẉ", "Ẋ", "Ẍ", "Ẏ", "Ẑ", "Ẓ", "Ẕ", "ẞ",
       "Ạ", "Ả", "Ấ", "Ầ", "Ẩ", "Ẫ", "Ậ", "Ắ", "Ằ", "Ẳ", "Ẵ", "Ặ",
       "Ẹ", "Ẻ", "Ẽ", "Ế", "Ề", "Ể", "Ễ", "Ệ", "Ỉ", "Ị", "Ọ", "Ỏ",
       "Ố", "Ồ", "Ổ", "Ỗ", "Ộ", "Ớ", "Ờ", "Ở", "Ỡ", "Ợ", "Ụ", "Ủ",
       "Ứ", "Ừ", "Ử", "Ữ", "Ự", "Ỳ", "Ỵ", "Ỷ", "Ỹ", "Ỻ", "Ỽ", "Ỿ",
       "ᾈ", "ᾉ", "ᾊ", "ᾋ", "ᾌ", "ᾍ", "ᾎ", "ᾏ", "ᾘ", "ᾙ", "ᾚ", "ᾛ",
       "ᾜ", "ᾝ", "ᾞ", "ᾟ", "ᾨ", "ᾩ", "ᾪ", "ᾫ", "ᾬ", "ᾭ", "ᾮ", "ᾯ",
       "Ᾰ", "Ᾱ", "Ὰ", "Ά", "ᾼ", "Ὲ", "Έ", "Ὴ", "Ή", "ῌ", "Ῐ", "Ῑ",
       "Ὶ", "Ί", "Ῠ", "Ῡ", "Ὺ", "Ύ", "Ῥ", "Ὸ", "Ό", "Ὼ", "Ώ", "ῼ",
       "Ↄ", "Ⓐ", "Ⓑ", "Ⓒ", "Ⓓ", "Ⓔ", "Ⓕ", "Ⓖ", "Ⓗ", "Ⓘ", "Ⓙ", "Ⓚ",
       "Ⓛ", "Ⓜ", "Ⓝ", "Ⓞ", "Ⓟ", "Ⓠ", "Ⓡ", "Ⓢ", "Ⓣ", "Ⓤ", "Ⓥ", "Ⓦ",
       "Ⓧ", "Ⓨ", "Ⓩ", "Ⲁ", "Ⲃ", "Ⲅ", "Ⲇ", "Ⲉ", "Ⲋ", "Ⲍ", "Ⲏ", "Ⲑ",
       "Ⲓ", "Ⲕ", "Ⲗ", "Ⲙ", "Ⲛ", "Ⲝ", "Ⲟ", "Ⲡ", "Ⲣ", "Ⲥ", "Ⲧ", "Ⲩ",
       "Ⲫ", "Ⲭ", "Ⲯ", "Ⲱ", "Ⲳ", "Ⲵ", "Ⲷ", "Ⲹ", "Ⲻ", "Ⲽ", "Ⲿ", "Ⳁ",
       "Ⳃ", "Ⳅ", "Ⳇ", "Ⳉ", "Ⳋ", "Ⳍ", "Ⳏ", "Ⳑ", "Ⳓ", "Ⳕ", "Ⳗ", "Ⳙ",
       "Ⳛ", "Ⳝ", "Ⳟ", "Ⳡ", "Ⳣ", "Ⳬ", "Ⳮ", "Ⳳ", "Ꚁ", "Ꚃ", "Ꚅ", "Ꚇ",
       "Ꚉ", "Ꚋ", "Ꚍ", "Ꚏ", "Ꚑ", "Ꚓ", "Ꚕ", "Ꚗ", "Ꚙ", "Ꚛ", "Ꞁ", "Ꞃ",
       "Ꞅ", "Ꞇ", "Ꞌ", "Ɥ", "Ꞑ", "Ꞓ", "Ꞗ", "Ꞙ", "Ꞛ", "Ꞝ", "Ꞟ", "Ꞡ",
       "Ꞣ", "Ꞥ", "Ꞧ", "Ꞩ", "Ɦ", "Ɜ", "Ɡ", "Ɬ", "Ɪ", "Ʞ", "Ʇ", "Ʝ",
       "Ꭓ", "Ꞵ", "Ꞷ", "Ꞹ", "Ꞻ", "Ꞽ", "Ꞿ", "Ꟁ", "Ꟃ", "Ꞔ", "Ʂ", "Ᶎ",
       "Ꟈ", "Ꟊ", "Ꟑ", "Ꟗ", "Ꟙ", "Ꟶ" >>

LowerChars ==
    << "a", "b", "c", "d", "e", "f", "g", "h", "i", "j", "k", "l",
       "m", "n", "o", "p", "q", "r", "s", "t", "u", "v", "w", "x",
       "y", "z", "à", "á", "â", "ã", "ä", "å", "æ", "ç", "è", "é",
       "ê", "ë", "ì", "í", "î", "ï", "ð", "ñ", "ò", "ó", "ô", "õ",
       "ö", "ø", "ù", "ú", "û", "ü", "ý", "þ", "U+0253", "ƃ", "ƅ", "U+0254",
       "ƈ", "U+0256", "U+0257", "ƌ", "ǝ", "U+0259", "U+025B", "ƒ", "U+0260", "U+0263", "U+0269", "U+0268",
       "ƙ", "U+026F", "U+0272", "U+0275", "ơ", "ƣ", "ƥ", "ʀ", "ƨ", "ʃ", "ƭ", "ʈ",
       "ư", "ʊ", "ʋ", "ƴ", "ƶ", "ʒ", "ƹ", "ƽ", "ǆ", "ǆ", "ǉ", "ǉ",
       "ǌ", "ǌ", "ǎ", "ǐ", "ǒ", "ǔ", "ǖ", "ǘ", "ǚ", "ǜ", "ǟ", "ǡ",
       "ǣ", "ǥ", "ǧ", "ǩ", "ǫ", "ǭ", "ǯ", "ǳ", "ǳ", "ǵ", "ƕ", "ƿ",
       "ǹ", "ǻ", "ǽ", "ǿ", "ά", "έ", "ή", "ί", "ό", "ύ", "ώ", "α",
       "β", "γ", "δ", "ε", "ζ", "η", "θ", "ι", "κ", "λ", "μ", "ν",
       "ξ", "ο", "π", "ρ", "τ", "υ", "φ", "χ", "ψ", "ω", "ϊ", "ϋ",
       "ϗ", "ϙ", "ϛ", "ϝ", "ϟ", "ϡ", "ϣ", "ϥ", "ϧ", "ϩ", "ϫ", "ϭ",
       "ϯ", "θ", "ϸ", "ϲ", "ϻ", "U+037B", "U+037C", "U+037D", "ҁ", "ҋ", "ҍ", "ҏ",
       "ґ", "ғ", "ҕ", "җ", "ҙ", "қ", "ҝ", "ҟ", "ҡ", "ң", "ҥ", "ҧ",
       "ҩ", "ҫ", "ҭ", "ү", "ұ", "ҳ", "ҵ", "ҷ", "ҹ", "һ", "ҽ", "ҿ",
       "ӏ", "ӂ", "ӄ", "ӆ", "ӈ", "ӊ", "ӌ", "ӎ", "ӑ", "ӓ", "ӕ", "ӗ",
       "ә", "ӛ", "ӝ", "ӟ", "ӡ", "ӣ", "ӥ", "ӧ", "ө", "ӫ", "ӭ", "ӯ",
       "ӱ", "ӳ", "ӵ", "ӷ", "ӹ", "ӻ", "ӽ", "ӿ", "U+2D00", "U+2D01", "U+2D02", "U+2D03",
       "U+2D04", "U+2D05", "U+2D06", "U+2D07", "U+2D08", "U+2D09", "U+2D0A", "U+2D0B", "U+2D0C", "U+2D0D", "U+2D0E", "U+2D0F",
       "U+2D10", "U+2D11", "U+2D12", "U+2D13", "U+2D14", "U+2D15", "U+2D16", "U+2D17", "U+2D18", "U+2D19", "U+2D1A", "U+2D1B",
       "U+2D1C", "U+2D1D", "U+2D1E", "U+2D1F", "U+2D20", "U+2D21", "U+2D22", "U+2D23", "U+2D24", "U+2D25", "U+2D27", "U+2D2D",
       "U+AB70", "U+AB71", "U+AB72", "U+AB73", "U+AB74", "U+AB75", "U+AB76", "U+AB77", "U+AB78", "U+AB79", "U+AB7A", "U+AB7B",
       "U+AB7C", "U+AB7D", "U+AB7E", "U+AB7F", "ꮀ", "ꮁ", "ꮂ", "ꮃ", "ꮄ", "ꮅ", "ꮆ", "ꮇ",
       "ꮈ", "ꮉ", "ꮊ", "ꮋ", "ꮌ", "ꮍ", "ꮎ", "ꮏ", "ꮐ", "ꮑ", "ꮒ", "ꮓ",
       "ꮔ", "ꮕ", "ꮖ", "ꮗ", "ꮘ", "ꮙ", "ꮚ", "ꮛ", "ꮜ", "ꮝ", "ꮞ", "ꮟ",
       "ꮠ", "ꮡ", "ꮢ", "ꮣ", "ꮤ", "ꮥ", "ꮦ", "ꮧ", "ꮨ", "ꮩ", "ꮪ", "ꮫ",
       "ꮬ", "ꮭ", "ꮮ", "ꮯ", "ꮰ", "ꮱ", "ꮲ", "ꮳ", "ꮴ", "ꮵ", "ꮶ", "ꮷ",
       "ꮸ", "ꮹ", "ꮺ", "ꮻ", "ꮼ", "ꮽ", "ꮾ", "ꮿ", "ᏸ", "ᏹ", "ᏺ", "ᏻ",
       "ᏼ", "ᏽ", "ა", "ბ", "გ", "დ", "ე", "ვ", "ზ", "თ", "ი", "კ",
       "ლ", "მ", "ნ", "ო", "პ", "ჟ", "რ", "ს", "ტ", "უ", "ფ", "ქ",
       "ღ", "ყ", "შ", "ჩ", "ც", "ძ", "წ", "ჭ", "ხ", "ჯ", "ჰ", "ჱ",
       "ჲ", "ჳ", "ჴ", "ჵ", "ჶ", "ჷ", "ჸ", "ჹ", "ჺ", "ჽ", "ჾ", "ჿ",
       "ẁ", "ẃ", "ẅ", "ẇ", "ẉ", "ẋ", "ẍ", "ẏ", "ẑ", "ẓ", "ẕ", "ß",
       "ạ", "ả", "ấ", "ầ", "ẩ", "ẫ", "ậ", "ắ", "ằ", "ẳ", "ẵ", "ặ",
       "ẹ", "ẻ", "ẽ", "ế", "ề", "ể", "ễ", "ệ", "ỉ", "ị", "ọ", "ỏ",
       "ố", "ồ", "ổ", "ỗ", "ộ", "ớ", "ờ", "ở", "ỡ", "ợ", "ụ", "ủ",
       "ứ", "ừ", "ử", "ữ", "ự", "ỳ", "ỵ", "ỷ", "ỹ", "ỻ", "ỽ", "ỿ",
       "ᾀ", "ᾁ", "ᾂ", "ᾃ", "ᾄ", "ᾅ", "ᾆ", "ᾇ", "ᾐ", "ᾑ", "ᾒ", "ᾓ",
       "ᾔ", "ᾕ", "ᾖ", "ᾗ", "ᾠ", "ᾡ", "ᾢ", "ᾣ", "ᾤ", "ᾥ", "ᾦ", "ᾧ",
       "ᾰ", "ᾱ", "U+1F70", "U+1F71", "ᾳ", "U+1F72", "U+1F73", "U+1F74", "U+1F75", "ῃ", "ῐ", "ῑ",
       "U+1F76", "U+1F77", "ῠ", "ῡ", "U+1F7A", "U+1F7B", "ῥ", "U+1F78", "U+1F79", "U+1F7C", "U+1F7D", "ῳ",
       "ↄ", "ⓐ", "ⓑ", "ⓒ", "ⓓ", "ⓔ", "ⓕ", "ⓖ", "ⓗ", "ⓘ", "ⓙ", "ⓚ",
       "ⓛ", "ⓜ", "ⓝ", "ⓞ", "ⓟ", "ⓠ", "ⓡ", "ⓢ", "ⓣ", "ⓤ", "ⓥ", "ⓦ",
       "ⓧ", "ⓨ", "ⓩ", "ⲁ", "ⲃ", "ⲅ", "ⲇ", "ⲉ", "ⲋ", "ⲍ", "ⲏ", "ⲑ",
       "ⲓ", "ⲕ", "ⲗ", "ⲙ", "ⲛ", "ⲝ", "ⲟ", "ⲡ", "ⲣ", "ⲥ", "ⲧ", "ⲩ",
       "ⲫ", "ⲭ", "ⲯ", "ⲱ", "ⲳ", "ⲵ", "ⲷ", "ⲹ", "ⲻ", "ⲽ", "ⲿ", "ⳁ",
       "ⳃ", "ⳅ", "ⳇ", "ⳉ", "ⳋ", "ⳍ", "ⳏ", "ⳑ", "ⳓ", "ⳕ", "ⳗ", "ⳙ",
       "ⳛ", "ⳝ", "ⳟ", "ⳡ", "ⳣ", "ⳬ", "ⳮ", "ⳳ", "ꚁ", "ꚃ", "ꚅ", "ꚇ",
       "ꚉ", "ꚋ", "ꚍ", "ꚏ", "ꚑ", "ꚓ", "ꚕ", "ꚗ", "ꚙ", "ꚛ", "ꞁ", "ꞃ",
       "ꞅ", "ꞇ", "ꞌ", "U+0265", "ꞑ", "ꞓ", "ꞗ", "ꞙ", "ꞛ", "ꞝ", "ꞟ", "ꞡ",
       "ꞣ", "ꞥ", "ꞧ", "ꞩ", "U+0266", "U+025C", "U+0261", "U+026C", "U+026A", "ʞ", "ʇ", "ʝ",
       "U+AB53", "ꞵ", "ꞷ", "ꞹ", "ꞻ", "ꞽ", "ꞿ", "ꟁ", "ꟃ", "ꞔ", "ʂ", "ᶎ",
       "ꟈ", "ꟊ", "ꟑ", "ꟗ", "ꟙ", "ꟶ" >>

UpperSet == {UpperChars[i] : i \in 1..Len(UpperChars)}

\* The Unicode database of the interpreter, which the repository does not
\* pin: 12.1 in Python 3.8, 13.0 in Python 3.9 and 3.10, 14.0 in Python 3.11,
\* 15.0 in Python 3.12 and 15.1 in Python 3.13.  The tables of this section
\* are those of 15; 15.0 and 15.1 are the same on the characters of a text.
UnicodeVersions == {12, 13, 14, 15}

\* Is c a character of version v of the database?  Of the characters of the
\* tables, nine came with 13.0 (six cased letters, three of them upper case,
\* and three marks), fifty with 14.0 (ten cased letters, four of them upper
\* case, and forty marks and modifiers) and U+0ECE, a mark, with 15.0;
\* before, they are no characters: not cased, not case-ignorable, their own
\* lower case.
Assigned(v, c) ==
    /\ v >= 13 \/ c \notin
             {"Ꟈ", "ꟈ", "Ꟊ", "ꟊ", "Ꟶ", "ꟶ", "ඁ", "ᪿ", "ᫀ"}
    /\ v >= 14 \/ c \notin
             { "࢈", "࢐", "࢑", "࢘", "࢙", "࢚", "࢛", "࢜", "࢝", "࢞", "࢟", "ࣉ",
               "࣊", "࣋", "࣌", "࣍", "࣎", "࣏", "࣐", "࣑", "࣒", "᫁", "᫂", "᫃",
               "᫄", "᫅", "᫆", "᫇", "᫈", "᫉", "᫊", "᫋", "ᫌ", "ᫍ", "ᫎ", "᷺",
               "Ꟁ", "ꟁ", "Ꟑ", "ꟑ", "ꟓ", "ꟕ", "Ꟗ", "ꟗ", "Ꟙ", "ꟙ", "ꟲ", "ꟳ",
               "ꟴ", "﯂" }
    /\ v >= 15 \/ c # "໎"

\* The lower case of one character other than the capital sigma, in version
\* v of the database.
LowerChar(v, c) ==
    IF c \in UpperSet /\ Assigned(v, c)
    THEN LowerChars[CHOOSE i \in 1..Len(UpperChars) : UpperChars[i] = c]
    ELSE c

\* The cased characters (upper, lower and title case letters, and the
\* characters with the property Other_Lowercase or Other_Uppercase) that are
\* not case-ignorable.
CasedChars ==
    { "A", "B", "C", "D", "E", "F", "G", "H", "I", "J", "K", "L",
      "M", "N", "O", "P", "Q", "R", "S", "T", "U", "V", "W", "X",
      "Y", "Z", "a", "b", "c", "d", "e", "f", "g", "h", "i", "j",
      "k", "l", "m", "n", "o", "p", "q", "r", "s", "t", "u", "v",
      "w", "x", "y", "z", "ª", "µ", "º", "À", "Á", "Â", "Ã", "Ä",
      "Å", "Æ", "Ç", "È", "É", "Ê", "Ë", "Ì", "Í", "Î", "Ï", "Ð",
      "Ñ", "Ò", "Ó", "Ô", "Õ", "Ö", "Ø", "Ù", "Ú", "Û", "Ü", "Ý",
      "Þ", "ß", "à", "á", "â", "ã", "ä", "å", "æ", "ç", "è", "é",
      "ê", "ë", "ì", "í", "î", "ï", "ð", "ñ", "ò", "ó", "ô", "õ",
      "ö", "ø", "ù", "ú", "û", "ü", "ý", "þ", "ÿ", "ƀ", "Ɓ", "Ƃ",
      "ƃ", "Ƅ", "ƅ", "Ɔ", "Ƈ", "ƈ", "Ɖ", "Ɗ", "Ƌ", "ƌ", "ƍ", "Ǝ",
      "Ə", "Ɛ", "Ƒ", "ƒ", "Ɠ", "Ɣ", "ƕ", "Ɩ", "Ɨ", "Ƙ", "ƙ", "ƚ",
      "ƛ", "Ɯ", "Ɲ", "ƞ", "Ɵ", "Ơ", "ơ", "Ƣ", "ƣ", "Ƥ", "ƥ", "Ʀ",
      "Ƨ", "ƨ", "Ʃ", "ƪ", "ƫ", "Ƭ", "ƭ", "Ʈ", "Ư", "ư", "Ʊ", "Ʋ",
      "Ƴ", "ƴ", "Ƶ", "ƶ", "Ʒ", "Ƹ", "ƹ", "ƺ", "Ƽ", "ƽ", "ƾ", "ƿ",
      "Ǆ", "ǅ", "ǆ", "Ǉ", "ǈ", "ǉ", "Ǌ", "ǋ", "ǌ", "Ǎ", "ǎ", "Ǐ",
      "ǐ", "Ǒ", "ǒ", "Ǔ", "ǔ", "Ǖ", "ǖ", "Ǘ", "ǘ", "Ǚ", "ǚ", "Ǜ",
      "ǜ", "ǝ", "Ǟ", "ǟ", "Ǡ", "ǡ", "Ǣ", "ǣ", "Ǥ", "ǥ", "Ǧ", "ǧ",
      "Ǩ", "ǩ", "Ǫ", "ǫ", "Ǭ", "ǭ", "Ǯ", "ǯ", "ǰ", "Ǳ", "ǲ", "ǳ",
      "Ǵ", "ǵ", "Ƕ", "Ƿ", "Ǹ", "ǹ", "Ǻ", "ǻ", "Ǽ", "ǽ", "Ǿ", "ǿ",
      "ʀ", "ʁ", "ʂ", "ʃ", "ʄ", "ʅ", "ʆ", "ʇ", "ʈ", "ʉ", "ʊ", "ʋ",
      "ʌ", "ʍ", "ʎ", "ʏ", "ʐ", "ʑ", "ʒ", "ʓ", "ʕ", "ʖ", "ʗ", "ʘ",
      "ʙ", "ʚ", "ʛ", "ʜ", "ʝ", "ʞ", "ʟ", "ʠ", "ʡ", "ʢ", "ʣ", "ʤ",
      "ʥ", "ʦ", "ʧ", "ʨ", "ʩ", "ʪ", "ʫ", "ʬ", "ʭ", "ʮ", "ʯ", "Ά",
      "Έ", "Ή", "Ί", "Ό", "Ύ", "Ώ", "ΐ", "Α", "Β", "Γ", "Δ", "Ε",
      "Ζ", "Η", "Θ", "Ι", "Κ", "Λ", "Μ", "Ν", "Ξ", "Ο", "Π", "Ρ",
      "Σ", "Τ", "Υ", "Φ", "Χ", "Ψ", "Ω", "Ϊ", "Ϋ", "ά", "έ", "ή",
      "ί", "ΰ", "α", "β", "γ", "δ", "ε", "ζ", "η", "θ", "ι", "κ",
      "λ", "μ", "ν", "ξ", "ο", "π", "ρ", "ς", "σ", "τ", "υ", "φ",
      "χ", "ψ", "ω", "ϊ", "ϋ", "ό", "ύ", "ώ", "Ϗ", "ϐ", "ϑ", "ϒ",
      "ϓ", "ϔ", "ϕ", "ϖ", "ϗ", "Ϙ", "ϙ", "Ϛ", "ϛ", "Ϝ", "ϝ", "Ϟ",
      "ϟ", "Ϡ", "ϡ", "Ϣ", "ϣ", "Ϥ", "ϥ", "Ϧ", "ϧ", "Ϩ", "ϩ", "Ϫ",
      "ϫ", "Ϭ", "ϭ", "Ϯ", "ϯ", "ϰ", "ϱ", "ϲ", "ϳ", "ϴ", "ϵ", "Ϸ",
      "ϸ", "Ϲ", "Ϻ", "ϻ", "ϼ", "Ͻ", "Ͼ", "Ͽ", "Ҁ", "ҁ", "Ҋ", "ҋ",
      "Ҍ", "ҍ", "Ҏ", "ҏ", "Ґ", "ґ", "Ғ", "ғ", "Ҕ", "ҕ", "Җ", "җ",
      "Ҙ", "ҙ", "Қ", "қ", "Ҝ", "ҝ", "Ҟ", "ҟ", "Ҡ", "ҡ", "Ң", "ң",
      "Ҥ", "ҥ", "Ҧ", "ҧ", "Ҩ", "ҩ", "Ҫ", "ҫ", "Ҭ", "ҭ", "Ү", "ү",
      "Ұ", "ұ", "Ҳ", "ҳ", "Ҵ", "ҵ", "Ҷ", "ҷ", "Ҹ", "ҹ", "Һ", "һ",
      "Ҽ", "ҽ", "Ҿ", "ҿ", "Ӏ", "Ӂ", "ӂ", "Ӄ", "ӄ", "Ӆ", "ӆ", "Ӈ",
      "ӈ", "Ӊ", "ӊ", "Ӌ", "ӌ", "Ӎ", "ӎ", "ӏ", "Ӑ", "ӑ", "Ӓ", "ӓ",
      "Ӕ", "ӕ", "Ӗ", "ӗ", "Ә", "ә", "Ӛ", "ӛ", "Ӝ", "ӝ", "Ӟ", "ӟ",
      "Ӡ", "ӡ", "Ӣ", "ӣ", "Ӥ", "ӥ", "Ӧ", "ӧ", "Ө", "ө", "Ӫ", "ӫ",
      "Ӭ", "ӭ", "Ӯ", "ӯ", "Ӱ", "ӱ", "Ӳ", "ӳ", "Ӵ", "ӵ", "Ӷ", "ӷ",
      "Ӹ", "ӹ", "Ӻ", "ӻ", "Ӽ", "ӽ", "Ӿ", "ӿ", "ր", "ց", "ւ", "փ",
      "ք", "օ", "ֆ", "և", "ֈ", "Ⴀ", "Ⴁ", "Ⴂ", "Ⴃ", "Ⴄ", "Ⴅ", "Ⴆ",
      "Ⴇ", "Ⴈ", "Ⴉ", "Ⴊ", "Ⴋ", "Ⴌ", "Ⴍ", "Ⴎ", "Ⴏ", "Ⴐ", "Ⴑ", "Ⴒ",
      "Ⴓ", "Ⴔ", "Ⴕ", "Ⴖ", "Ⴗ", "Ⴘ", "Ⴙ", "Ⴚ", "Ⴛ", "Ⴜ", "Ⴝ", "Ⴞ",
      "Ⴟ", "Ⴠ", "Ⴡ", "Ⴢ", "Ⴣ", "Ⴤ", "Ⴥ", "Ⴧ", "Ⴭ", "ა", "ბ", "გ",
      "დ", "ე", "ვ", "ზ", "თ", "ი", "კ", "ლ", "მ", "ნ", "ო", "პ",
      "ჟ", "რ", "ს", "ტ", "უ", "ფ", "ქ", "ღ", "ყ", "შ", "ჩ", "ც",
      "ძ", "წ", "ჭ", "ხ", "ჯ", "ჰ", "ჱ", "ჲ", "ჳ", "ჴ", "ჵ", "ჶ",
      "ჷ", "ჸ", "ჹ", "ჺ", "ჽ", "ჾ", "ჿ", "Ꭰ", "Ꭱ", "Ꭲ", "Ꭳ", "Ꭴ",
      "Ꭵ", "Ꭶ", "Ꭷ", "Ꭸ", "Ꭹ", "Ꭺ", "Ꭻ", "Ꭼ", "Ꭽ", "Ꭾ", "Ꭿ", "Ꮀ",
      "Ꮁ", "Ꮂ", "Ꮃ", "Ꮄ", "Ꮅ", "Ꮆ", "Ꮇ", "Ꮈ", "Ꮉ", "Ꮊ", "Ꮋ", "Ꮌ",
      "Ꮍ", "Ꮎ", "Ꮏ", "Ꮐ", "Ꮑ", "Ꮒ", "Ꮓ", "Ꮔ", "Ꮕ", "Ꮖ", "Ꮗ", "Ꮘ",
      "Ꮙ", "Ꮚ", "Ꮛ", "Ꮜ", "Ꮝ", "Ꮞ", "Ꮟ", "Ꮠ", "Ꮡ", "Ꮢ", "Ꮣ", "Ꮤ",
      "Ꮥ", "Ꮦ", "Ꮧ", "Ꮨ", "Ꮩ", "Ꮪ", "Ꮫ", "Ꮬ", "Ꮭ", "Ꮮ", "Ꮯ", "Ꮰ",
      "Ꮱ", "Ꮲ", "Ꮳ", "Ꮴ", "Ꮵ", "Ꮶ", "Ꮷ", "Ꮸ", "Ꮹ", "Ꮺ", "Ꮻ", "Ꮼ",
      "Ꮽ", "Ꮾ", "Ꮿ", "Ᏸ", "Ᏹ", "Ᏺ", "Ᏻ", "Ᏼ", "Ᏽ", "ᏸ", "ᏹ", "ᏺ",
      "ᏻ", "ᏼ", "ᏽ", "ᲀ", "ᲁ", "ᲂ", "ᲃ", "ᲄ", "ᲅ", "ᲆ", "ᲇ", "ᲈ",
      "Ა", "Ბ", "Გ", "Დ", "Ე", "Ვ", "Ზ", "Თ", "Ი", "Კ", "Ლ", "Მ",
      "Ნ", "Ო", "Პ", "Ჟ", "Რ", "Ს", "Ტ", "Უ", "Ფ", "Ქ", "Ღ", "Ყ",
      "Შ", "Ჩ", "Ც", "Ძ", "Წ", "Ჭ", "Ხ", "Ჯ", "Ჰ", "Ჱ", "Ჲ", "Ჳ",
      "Ჴ", "Ჵ", "Ჶ", "Ჷ", "Ჸ", "Ჹ", "Ჺ", "Ჽ", "Ჾ", "Ჿ", "ᶀ", "ᶁ",
      "ᶂ", "ᶃ", "ᶄ", "ᶅ", "ᶆ", "ᶇ", "ᶈ", "ᶉ", "ᶊ", "ᶋ", "ᶌ", "ᶍ",
      "ᶎ", "ᶏ", "ᶐ", "ᶑ", "ᶒ", "ᶓ", "ᶔ", "ᶕ", "ᶖ", "ᶗ", "ᶘ", "ᶙ",
      "ᶚ", "Ẁ", "ẁ", "Ẃ", "ẃ", "Ẅ", "ẅ", "Ẇ", "ẇ", "Ẉ", "ẉ", "Ẋ",
      "ẋ", "Ẍ", "ẍ", "Ẏ", "ẏ", "Ẑ", "ẑ", "Ẓ", "ẓ", "Ẕ", "ẕ", "ẖ",
      "ẗ", "ẘ", "ẙ", "ẚ", "ẛ", "ẜ", "ẝ", "ẞ", "ẟ", "Ạ", "ạ", "Ả",
      "ả", "Ấ", "ấ", "Ầ", "ầ", "Ẩ", "ẩ", "Ẫ", "ẫ", "Ậ", "ậ", "Ắ",
      "ắ", "Ằ", "ằ", "Ẳ", "ẳ", "Ẵ", "ẵ", "Ặ", "ặ", "Ẹ", "ẹ", "Ẻ",
      "ẻ", "Ẽ", "ẽ", "Ế", "ế", "Ề", "ề", "Ể", "ể", "Ễ", "ễ", "Ệ",
      "ệ", "Ỉ", "ỉ", "Ị", "ị", "Ọ", "ọ", "Ỏ", "ỏ", "Ố", "ố", "Ồ",
      "ồ", "Ổ", "ổ", "Ỗ", "ỗ", "Ộ", "ộ", "Ớ", "ớ", "Ờ", "ờ", "Ở",
      "ở", "Ỡ", "ỡ", "Ợ", "ợ", "Ụ", "ụ", "Ủ", "ủ", "Ứ", "ứ", "Ừ",
      "ừ", "Ử", "ử", "Ữ", "ữ", "Ự", "ự", "Ỳ", "ỳ", "Ỵ", "ỵ", "Ỷ",
      "ỷ", "Ỹ", "ỹ", "Ỻ", "ỻ", "Ỽ", "ỽ", "Ỿ", "ỿ", "ᾀ", "ᾁ", "ᾂ",
      "ᾃ", "ᾄ", "ᾅ", "ᾆ", "ᾇ", "ᾈ", "ᾉ", "ᾊ", "ᾋ", "ᾌ", "ᾍ", "ᾎ",
      "ᾏ", "ᾐ", "ᾑ", "ᾒ", "ᾓ", "ᾔ", "ᾕ", "ᾖ", "ᾗ", "ᾘ", "ᾙ", "ᾚ",
      "ᾛ", "ᾜ", "ᾝ", "ᾞ", "ᾟ", "ᾠ", "ᾡ", "ᾢ", "ᾣ", "ᾤ", "ᾥ", "ᾦ",
      "ᾧ", "ᾨ", "ᾩ", "ᾪ", "ᾫ", "ᾬ", "ᾭ", "ᾮ", "ᾯ", "ᾰ", "ᾱ", "ᾲ",
      "ᾳ", "ᾴ", "ᾶ", "ᾷ", "Ᾰ", "Ᾱ", "Ὰ", "Ά", "ᾼ", "ι", "ῂ", "ῃ",
      "ῄ", "ῆ", "ῇ", "Ὲ", "Έ", "Ὴ", "Ή", "ῌ", "ῐ", "ῑ", "ῒ", "ΐ",
      "ῖ", "ῗ", "Ῐ", "Ῑ", "Ὶ", "Ί", "ῠ", "ῡ", "ῢ", "ΰ", "ῤ", "ῥ",
      "ῦ", "ῧ", "Ῠ", "Ῡ", "Ὺ", "Ύ", "Ῥ", "ῲ", "ῳ", "ῴ", "ῶ", "ῷ",
      "Ὸ", "Ό", "Ὼ", "Ώ", "ῼ", "Ↄ", "ↄ", "Ⓐ", "Ⓑ", "Ⓒ", "Ⓓ", "Ⓔ",
      "Ⓕ", "Ⓖ", "Ⓗ", "Ⓘ", "Ⓙ", "Ⓚ", "Ⓛ", "Ⓜ", "Ⓝ", "Ⓞ", "Ⓟ", "Ⓠ",
      "Ⓡ", "Ⓢ", "Ⓣ", "Ⓤ", "Ⓥ", "Ⓦ", "Ⓧ", "Ⓨ", "Ⓩ", "ⓐ", "ⓑ", "ⓒ",
      "ⓓ", "ⓔ", "ⓕ", "ⓖ", "ⓗ", "ⓘ", "ⓙ", "ⓚ", "ⓛ", "ⓜ", "ⓝ", "ⓞ",
      "ⓟ", "ⓠ", "ⓡ", "ⓢ", "ⓣ", "ⓤ", "ⓥ", "ⓦ", "ⓧ", "ⓨ", "ⓩ", "Ⲁ",
      "ⲁ", "Ⲃ", "ⲃ", "Ⲅ", "ⲅ", "Ⲇ", "ⲇ", "Ⲉ", "ⲉ", "Ⲋ", "ⲋ", "Ⲍ",
      "ⲍ", "Ⲏ", "ⲏ", "Ⲑ", "ⲑ", "Ⲓ", "ⲓ", "Ⲕ", "ⲕ", "Ⲗ", "ⲗ", "Ⲙ",
      "ⲙ", "Ⲛ", "ⲛ", "Ⲝ", "ⲝ", "Ⲟ", "ⲟ", "Ⲡ", "ⲡ", "Ⲣ", "ⲣ", "Ⲥ",
      "ⲥ", "Ⲧ", "ⲧ", "Ⲩ", "ⲩ", "Ⲫ", "ⲫ", "Ⲭ", "ⲭ", "Ⲯ", "ⲯ", "Ⲱ",
      "ⲱ", "Ⲳ", "ⲳ", "Ⲵ", "ⲵ", "Ⲷ", "ⲷ", "Ⲹ", "ⲹ", "Ⲻ", "ⲻ", "Ⲽ",
      "ⲽ", "Ⲿ", "ⲿ", "Ⳁ", "ⳁ", "Ⳃ", "ⳃ", "Ⳅ", "ⳅ", "Ⳇ", "ⳇ", "Ⳉ",
      "ⳉ", "Ⳋ", "ⳋ", "Ⳍ", "ⳍ", "Ⳏ", "ⳏ", "Ⳑ", "ⳑ", "Ⳓ", "ⳓ", "Ⳕ",
      "ⳕ", "Ⳗ", "ⳗ", "Ⳙ", "ⳙ", "Ⳛ", "ⳛ", "Ⳝ", "ⳝ", "Ⳟ", "ⳟ", "Ⳡ",
      "ⳡ", "Ⳣ", "ⳣ", "ⳤ", "Ⳬ", "ⳬ", "Ⳮ", "ⳮ", "Ⳳ", "ⳳ", "Ꚁ", "ꚁ",
      "Ꚃ", "ꚃ", "Ꚅ", "ꚅ", "Ꚇ", "ꚇ", "Ꚉ", "ꚉ", "Ꚋ", "ꚋ", "Ꚍ", "ꚍ",
      "Ꚏ", "ꚏ", "Ꚑ", "ꚑ", "Ꚓ", "ꚓ", "Ꚕ", "ꚕ", "Ꚗ", "ꚗ", "Ꚙ", "ꚙ",
      "Ꚛ", "ꚛ", "Ꞁ", "ꞁ", "Ꞃ", "ꞃ", "Ꞅ", "ꞅ", "Ꞇ", "ꞇ", "Ꞌ", "ꞌ",
      "Ɥ", "ꞎ", "Ꞑ", "ꞑ", "Ꞓ", "ꞓ", "ꞔ", "ꞕ", "Ꞗ", "ꞗ", "Ꞙ", "ꞙ",
      "Ꞛ", "ꞛ", "Ꞝ", "ꞝ", "Ꞟ", "ꞟ", "Ꞡ", "ꞡ", "Ꞣ", "ꞣ", "Ꞥ", "ꞥ",
      "Ꞧ", "ꞧ", "Ꞩ", "ꞩ", "Ɦ", "Ɜ", "Ɡ", "Ɬ", "Ɪ", "ꞯ", "Ʞ", "Ʇ",
      "Ʝ", "Ꭓ", "Ꞵ", "ꞵ", "Ꞷ", "ꞷ", "Ꞹ", "ꞹ", "Ꞻ", "ꞻ", "Ꞽ", "ꞽ",
      "Ꞿ", "ꞿ", "Ꟁ", "ꟁ", "Ꟃ", "ꟃ", "Ꞔ", "Ʂ", "Ᶎ", "Ꟈ", "ꟈ", "Ꟊ",
      "ꟊ", "Ꟑ", "ꟑ", "ꟓ", "ꟕ", "Ꟗ", "ꟗ", "Ꟙ", "ꟙ", "Ꟶ", "ꟶ", "ꟺ",
      "ꮀ", "ꮁ", "ꮂ", "ꮃ", "ꮄ", "ꮅ", "ꮆ", "ꮇ", "ꮈ", "ꮉ", "ꮊ", "ꮋ",
      "ꮌ", "ꮍ", "ꮎ", "ꮏ", "ꮐ", "ꮑ", "ꮒ", "ꮓ", "ꮔ", "ꮕ", "ꮖ", "ꮗ",
      "ꮘ", "ꮙ", "ꮚ", "ꮛ", "ꮜ", "ꮝ", "ꮞ", "ꮟ", "ꮠ", "ꮡ", "ꮢ", "ꮣ",
      "ꮤ", "ꮥ", "ꮦ", "ꮧ", "ꮨ", "ꮩ", "ꮪ", "ꮫ", "ꮬ", "ꮭ", "ꮮ", "ꮯ",
      "ꮰ", "ꮱ", "ꮲ", "ꮳ", "ꮴ", "ꮵ", "ꮶ", "ꮷ", "ꮸ", "ꮹ", "ꮺ", "ꮻ",
      "ꮼ", "ꮽ", "ꮾ", "ꮿ" }

\* The case-ignorable characters: marks, modifiers, format characters and
\* the punctuation that can stand inside a word.
CaseIgnorableChars ==
    { "'", ".", ":", "^", "¨", "­", "¯", "´", "·", "¸", "ʰ", "ʱ",
      "ʲ", "ʳ", "ʴ", "ʵ", "ʶ", "ʷ", "ʸ", "ʹ", "ʺ", "ʻ", "ʼ", "ʽ",
      "ʾ", "ʿ", "ˀ", "ˁ", "˂", "˃", "˄", "˅", "ˆ", "ˇ", "ˈ", "ˉ",
      "ˊ", "ˋ", "ˌ", "ˍ", "ˎ", "ˏ", "ː", "ˑ", "˒", "˓", "˔", "˕",
      "˖", "˗", "˘", "˙", "˚", "˛", "˜", "˝", "˞", "˟", "ˠ", "ˡ",
      "ˢ", "ˣ", "ˤ", "˥", "˦", "˧", "˨", "˩", "˪", "˫", "ˬ", "˭",
      "ˮ", "˯", "˰", "˱", "˲", "˳", "˴", "˵", "˶", "˷", "˸", "˹",
      "˺", "˻", "˼", "˽", "˾", "˿", "΄", "΅", "·", "҃", "҄", "҅",
      "҆", "҇", "҈", "҉", "֑", "֒", "֓", "֔", "֕", "֖", "֗", "֘",
      "֙", "֚", "֛", "֜", "֝", "֞", "֟", "֠", "֡", "֢", "֣", "֤",
      "֥", "֦", "֧", "֨", "֩", "֪", "֫", "֬", "֭", "֮", "֯", "ְ",
      "ֱ", "ֲ", "ֳ", "ִ", "ֵ", "ֶ", "ַ", "ָ", "ֹ", "ֺ", "ֻ", "ּ",
      "ֽ", "ֿ", "ׁ", "ׂ", "ׄ", "ׅ", "ׇ", "״", "ۖ", "ۗ", "ۘ", "ۙ",
      "ۚ", "ۛ", "ۜ", "۝", "۟", "۠", "ۡ", "ۢ", "ۣ", "ۤ", "ۥ", "ۦ",
      "ۧ", "ۨ", "۪", "۫", "۬", "ۭ", "ަ", "ާ", "ި", "ީ", "ު", "ޫ",
      "ެ", "ޭ", "ޮ", "ޯ", "ް", "߫", "߬", "߭", "߮", "߯", "߰", "߱",
      "߲", "߳", "ߴ", "ߵ", "ߺ", "߽", "࢈", "࢐", "࢑", "࢘", "࢙", "࢚",
      "࢛", "࢜", "࢝", "࢞", "࢟", "ࣉ", "࣊", "࣋", "࣌", "࣍", "࣎", "࣏",
      "࣐", "࣑", "࣒", "࣓", "ࣔ", "ࣕ", "ࣖ", "ࣗ", "ࣘ", "ࣙ", "ࣚ", "ࣛ",
      "ࣜ", "ࣝ", "ࣞ", "ࣟ", "࣠", "࣡", "࣢", "ࣣ", "ࣤ", "ࣥ", "ࣦ", "ࣧ",
      "ࣨ", "ࣩ", "࣪", "࣫", "࣬", "࣭", "࣮", "࣯", "ࣰ", "ࣱ", "ࣲ", "ࣳ",
      "ࣴ", "ࣵ", "ࣶ", "ࣷ", "ࣸ", "ࣹ", "ࣺ", "ࣻ", "ࣼ", "ࣽ", "ࣾ", "ࣿ",
      "ঁ", "়", "ু", "ূ", "ৃ", "ৄ", "্", "ৢ", "ৣ", "৾", "ઁ", "ં",
      "઼", "ુ", "ૂ", "ૃ", "ૄ", "ૅ", "ે", "ૈ", "્", "ૢ", "ૣ", "ૺ",
      "ૻ", "ૼ", "૽", "૾", "૿", "ஂ", "ீ", "்", "ಁ", "಼", "ಿ", "ೆ",
      "ೌ", "್", "ೢ", "ೣ", "ඁ", "්", "ි", "ී", "ු", "ූ", "ັ", "ິ",
      "ີ", "ຶ", "ື", "ຸ", "ູ", "຺", "ົ", "ຼ", "ໆ", "່", "້", "໊",
      "໋", "໌", "ໍ", "ྀ", "ཱྀ", "ྂ", "ྃ", "྄", "྆", "྇", "ྍ", "ྎ",
      "ྏ", "ྐ", "ྑ", "ྒ", "ྒྷ", "ྔ", "ྕ", "ྖ", "ྗ", "ྙ", "ྚ", "ྛ",
      "ྜ", "ྜྷ", "ྞ", "ྟ", "ྠ", "ྡ", "ྡྷ", "ྣ", "ྤ", "ྥ", "ྦ", "ྦྷ",
      "ྨ", "ྩ", "ྪ", "ྫ", "ྫྷ", "ྭ", "ྮ", "ྯ", "ྰ", "ྱ", "ྲ", "ླ",
      "ྴ", "ྵ", "ྶ", "ྷ", "ྸ", "ྐྵ", "ྺ", "ྻ", "ྼ", "࿆", "ႂ", "ႅ",
      "ႆ", "ႍ", "ႝ", "ჼ", "឴", "឵", "ិ", "ី", "ឹ", "ឺ", "ុ", "ូ",
      "ួ", "ំ", "៉", "៊", "់", "៌", "៍", "៎", "៏", "័", "៑", "្",
      "៓", "ៗ", "៝", "ᢅ", "ᢆ", "ᢩ", "ᪧ", "᪰", "᪱", "᪲", "᪳", "᪴",
      "᪵", "᪶", "᪷", "᪸", "᪹", "᪺", "᪻", "᪼", "᪽", "᪾", "ᪿ", "ᫀ",
      "᫁", "᫂", "᫃", "᫄", "᫅", "᫆", "᫇", "᫈", "᫉", "᫊", "᫋", "ᫌ",
      "ᫍ", "ᫎ", "ᮀ", "ᮁ", "ᮢ", "ᮣ", "ᮤ", "ᮥ", "ᮨ", "ᮩ", "᮫", "ᮬ",
      "ᮭ", "᯦", "ᯨ", "ᯩ", "ᯭ", "ᯯ", "ᯰ", "ᯱ", "᳐", "᳑", "᳒", "᳔",
      "᳕", "᳖", "᳗", "᳘", "᳙", "᳚", "᳛", "᳜", "᳝", "᳞", "᳟", "᳠",
      "᳢", "᳣", "᳤", "᳥", "᳦", "᳧", "᳨", "᳭", "᳴", "᳸", "᳹", "ᶛ",
      "ᶜ", "ᶝ", "ᶞ", "ᶟ", "ᶠ", "ᶡ", "ᶢ", "ᶣ", "ᶤ", "ᶥ", "ᶦ", "ᶧ",
      "ᶨ", "ᶩ", "ᶪ", "ᶫ", "ᶬ", "ᶭ", "ᶮ", "ᶯ", "ᶰ", "ᶱ", "ᶲ", "ᶳ",
      "ᶴ", "ᶵ", "ᶶ", "ᶷ", "ᶸ", "ᶹ", "ᶺ", "ᶻ", "ᶼ", "ᶽ", "ᶾ", "ᶿ",
      "᷀", "᷁", "᷂", "᷃", "᷄", "᷅", "᷆", "᷇", "᷈", "᷉", "᷊", "᷋",
      "᷌", "᷍", "᷎", "᷏", "᷐", "᷑", "᷒", "ᷓ", "ᷔ", "ᷕ", "ᷖ", "ᷗ",
      "ᷘ", "ᷙ", "ᷚ", "ᷛ", "ᷜ", "ᷝ", "ᷞ", "ᷟ", "ᷠ", "ᷡ", "ᷢ", "ᷣ",
      "ᷤ", "ᷥ", "ᷦ", "ᷧ", "ᷨ", "ᷩ", "ᷪ", "ᷫ", "ᷬ", "ᷭ", "ᷮ", "ᷯ",
      "ᷰ", "ᷱ", "ᷲ", "ᷳ", "ᷴ", "᷵", "᷶", "᷷", "᷸", "᷹", "᷺", "᷻",
      "᷼", "᷽", "᷾", "᷿", "᾽", "᾿", "῀", "῁", "῍", "῎", "῏", "῝",
      "῞", "῟", "῭", "΅", "`", "´", "῾", "ₐ", "ₑ", "ₒ", "ₓ", "ₔ",
      "ₕ", "ₖ", "ₗ", "ₘ", "ₙ", "ₚ", "ₛ", "ₜ", "⃐", "⃑", "⃒", "⃓",
      "⃔", "⃕", "⃖", "⃗", "⃘", "⃙", "⃚", "⃛", "⃜", "⃝", "⃞", "⃟",
      "⃠", "⃡", "⃢", "⃣", "⃤", "⃥", "⃦", "⃧", "⃨", "⃩", "⃪", "⃫",
      "⃬", "⃭", "⃮", "⃯", "⃰", "⳯", "⳰", "⳱", "ⷠ", "ⷡ", "ⷢ", "ⷣ",
      "ⷤ", "ⷥ", "ⷦ", "ⷧ", "ⷨ", "ⷩ", "ⷪ", "ⷫ", "ⷬ", "ⷭ", "ⷮ", "ⷯ",
      "ⷰ", "ⷱ", "ⷲ", "ⷳ", "ⷴ", "ⷵ", "ⷶ", "ⷷ", "ⷸ", "ⷹ", "ⷺ", "ⷻ",
      "ⷼ", "ⷽ", "ⷾ", "ⷿ", "゙", "゚", "゛", "゜", "ゝ", "ゞ", "ー", "ヽ",
      "ヾ", "ꓸ", "ꓹ", "ꓺ", "ꓻ", "ꓼ", "ꓽ", "ꚜ", "ꚝ", "ꚞ", "ꚟ", "꛰",
      "꛱", "ꞈ", "꞉", "꞊", "ꟲ", "ꟳ", "ꟴ", "ꟸ", "ꟹ", "꣄", "ꣅ", "꣠",
      "꣡", "꣢", "꣣", "꣤", "꣥", "꣦", "꣧", "꣨", "꣩", "꣪", "꣫", "꣬",
      "꣭", "꣮", "꣯", "꣰", "꣱", "ꣿ", "ꦀ", "ꦁ", "ꦂ", "꦳", "ꦶ", "ꦷ",
      "ꦸ", "ꦹ", "ꦼ", "ꦽ", "ꧏ", "ꧥ", "ꧦ", "ꪰ", "ꪲ", "ꪳ", "ꪴ", "ꪷ",
      "ꪸ", "ꪾ", "꪿", "꫁", "ꫝ", "ꫬ", "ꫭ", "ꫳ", "ꫴ", "꫶", "ꯥ", "ꯨ",
      "꯭", "﮲", "﮳", "﮴", "﮵", "﮶", "﮷", "﮸", "﮹", "﮺", "﮻", "﮼",
      "﮽", "﮾", "﮿", "﯀", "﯁", "﯂", "﻿", "ﾞ", "ﾟ", "￣", "￹", "￺",
      "￻", "໎" }

\* Final_Sigma: the capital sigma at i is the last letter of a word.  Going
\* back from i over case-ignorable characters a cased character is met, and
\* going on from i over case-ignorable characters none is; all by version v
\* of the database.
FinalSigma(v, t, i) ==
    LET Cased(c) == c \in CasedChars /\ Assigned(v, c)
        CaseIgnorable(c) == c \in CaseIgnorableChars /\ Assigned(v, c)
    IN  /\ \E j \in 1..(i - 1) :
               /\ Cased(t[j])
               /\ \A k \in (j + 1)..(i - 1) : CaseIgnorable(t[k])
        /\ ~\E j \in (i + 1)..Len(t) :
                /\ Cased(t[j])
                /\ \A k \in (i + 1)..(j - 1) : CaseIgnorable(t[k])

\* str.lower under version v of the database: every cased character in lower
\* case; the capital sigma becomes the final sigma at the end of a word and
\* the small sigma elsewhere.
Lower(v, t) ==
    [i \in 1..Len(t) |->
        IF t[i] = "Σ" THEN (IF FinalSigma(v, t, i) THEN "ς" ELSE "σ")
        ELSE LowerChar(v, t[i])]

\* Python's "sub in t" for texts.
Contains(sub, t) ==
    \E i \in 0..(Len(t) - Len(sub)) : \A k \in 1..Len(sub) : t[i + k] = sub[k]

----------------------------------------------------------------------------
(* Dashboard summary: POST /summary, dashboard_routes.py                    *)

NumSummaryReq == 2

SReqs == 1..NumSummaryReq

\* time.sleep(90)
CooldownSeconds == 90

\* The fields of AISummary, all required.
SummaryFields == {"focus", "opportunity", "caution", "action"}

\* str(e) of the exceptions the chain is made to raise.
ErrTexts ==
    << <<"r", "a", "t", "e", "_", "l", "i", "m", "i", "t", "_", "e", "x", "c", "e", "e", "d", "e", "d">>,
       <<"R", "a", "t", "e", "_", "L", "i", "m", "i", "t", " ", "h", "i", "t">>,
       <<"E", "r", "r", "o", "r", " ", "c", "o", "d", "e", ":", " ", "4", "2", "9">>,
       <<"p", "o", "r", "t", " ", "1", "4", "2", "9", "0", " ", "c", "l", "o", "s", "e", "d">>,
       <<"r", "a", "t", "e", " ", "l", "i", "m", "i", "t">>,
       <<"t", "i", "m", "e", "d", " ", "o", "u", "t", " ", "4", "2", " ", "9">>,
       <<"D", "É", "B", "I", "T", ":", " ", "R", "A", "T", "E", "_", "L", "I", "M", "I", "T">> >>

ErrIds == 1..Len(ErrTexts)

\* The field sets of the replies the model is made to give.
ReplyFieldSets == {SummaryFields, SummaryFields \ {"action"}, {}}

\* What one chain.ainvoke can do: the provider raises (text), or the model
\* replies with some fields; text is then the message of the parser's
\* exception, raised when the reply does not validate.
ChainOutcomes ==
    [kind : {"error"}, fields : {{}}, text : ErrIds]
        \cup [kind : {"reply"}, fields : ReplyFieldSets, text : ErrIds]

\* PydanticOutputParser(AISummary): every field is required.
Validates(fields) == SummaryFields \subseteq fields

\* chain.ainvoke succeeded: the model replied and the reply validated.
Succeeds(out) == out.kind = "reply" /\ Validates(out.fields)

\* Every failure counts as a rate limit.
IsRateLimit_Always(v, text) == TRUE

\* "rate_limit" in err_str.lower() or "429" in err_str, under version v of
\* the interpreter's Unicode database
IsRateLimit(v, text) ==
    \/ Contains(<<"r", "a", "t", "e", "_", "l", "i", "m", "i", "t">>, Lower(v, text))
    \/ Contains(<<"4", "2", "9">>, text)

\* A fallback that lost a field.
Fallback_NoAction ==
    [status |-> 200, source |-> "fallback", fields |-> SummaryFields \ {"action"}]

\* The static AISummary returned when the model gave none.
Fallback == [status |-> 200, source |-> "fallback", fields |-> SummaryFields]

ModelSummary(out) == [status |-> 200, source |-> "model", fields |-> out.fields]

NotConfigured == [status |-> 500, source |-> "none", fields |-> {}]

NoResponse == [status |-> 0, source |-> "none", fields |-> {}]

InitSummary ==
    /\ groq_model \in BOOLEAN
    /\ spc = [q \in SReqs |-> "idle"]
    /\ calls = [q \in SReqs |-> 0]
    /\ slept = [q \in SReqs |-> 0]
    /\ err1 = [q \in SReqs |-> <<>>]
    /\ err2 = [q \in SReqs |-> <<>>]
    /\ sresp = [q \in SReqs |-> NoResponse]

\* The handler up to its first await: HTTP 500 without a model, else the
\* context, parser, prompt and chain are built and chain.ainvoke begins.
SummaryStart(q) ==
    /\ spc[q] = "idle"
    /\ IF groq_model
       THEN /\ spc' = [spc EXCEPT ![q] = "call1"]
            /\ calls' = [calls EXCEPT ![q] = 1]
            /\ UNCHANGED sresp
       ELSE /\ spc' = [spc EXCEPT ![q] = "done"]
            /\ sresp' = [sresp EXCEPT ![q] = NotConfigured]
            /\ UNCHANGED calls
    /\ UNCHANGED <<groq_model, slept, err1, err2, plannerVars, trendsVars, bucketVars, listingVars, imagesVars, reportVars>>

\* The first invocation ends: its summary is returned, or its exception is
\* caught; a rate-limit text leads to the cooldown, any other to the fallback.
SummaryFirstReturn(q, out) ==
    /\ spc[q] = "call1"
    /\ IF Succeeds(out)
       THEN /\ sresp' = [sresp EXCEPT ![q] = ModelSummary(out)]
            /\ spc' = [spc EXCEPT ![q] = "done"]
            /\ UNCHANGED err1
       ELSE /\ err1' = [err1 EXCEPT ![q] = ErrTexts[out.text]]
            /\ \E v \in UnicodeVersions :
                   IF IsRateLimit(v, ErrTexts[out.text])
                   THEN /\ spc' = [spc EXCEPT ![q] = "cooldown"]
                        /\ UNCHANGED sresp
                   ELSE /\ spc' = [spc EXCEPT ![q] = "done"]
                        /\ sresp' = [sresp EXCEPT ![q] = Fallback]
    /\ UNCHANGED <<groq_model, calls, slept, err2, plannerVars, trendsVars, bucketVars, listingVars, imagesVars, reportVars>>

\* time.sleep(90) ends and the second chain.ainvoke begins.
SummaryCooldown(q) ==
    /\ spc[q] = "cooldown"
    /\ slept' = [slept EXCEPT ![q] = @ + CooldownSeconds]
    /\ calls' = [calls EXCEPT ![q] = @ + 1]
    /\ spc' = [spc EXCEPT ![q] = "call2"]
    /\ UNCHANGED <<groq_model, err1, err2, sresp, plannerVars, trendsVars, bucketVars, listingVars, imagesVars, reportVars>>

\* The retry ends: its summary is returned, or its exception is caught and
\* the fallback is returned.
SummaryRetryReturn(q, out) ==
    /\ spc[q] = "call2"
    /\ sresp' = [sresp EXCEPT ![q] = IF Succeeds(out) THEN ModelSummary(out) ELSE Fallback]
    /\ err2' = [err2 EXCEPT ![q] = IF Succeeds(out) THEN <<>> ELSE ErrTexts[out.text]]
    /\ spc' = [spc EXCEPT ![q] = "done"]
    /\ UNCHANGED <<groq_model, calls, slept, err1, plannerVars, trendsVars, bucketVars, listingVars, imagesVars, reportVars>>

NextSummary ==
    \E q \in SReqs :
        \/ SummaryStart(q)
        \/ \E out \in ChainOutcomes : SummaryFirstReturn(q, out)
        \/ SummaryCooldown(q)
        \/ \E out \in ChainOutcomes : SummaryRetryReturn(q, out)

----------------------------------------------------------------------------
(* Trend analysis: POST / of the trends router, trends_routes.py            *)

\* The most trend elements one model reply carries.
MaxTrends == 2

\* The decimal digits (Unicode category Nd) that a text of this module can
\* hold, in rows of ten: the ASCII row, then one row for each other script
\* whose digits a string of this module can be written with.  \d of re and
\* the digits that int() and float() read are these; the k-th character of a
\* row has the value k - 1.
DigitChars ==
    << "0", "1", "2", "3", "4", "5", "6", "7", "8", "9",
      "۰", "۱", "۲", "۳", "۴", "۵", "۶", "۷", "۸", "۹",
      "߀", "߁", "߂", "߃", "߄", "߅", "߆", "߇", "߈", "߉",
      "০", "১", "২", "৩", "৪", "৫", "৬", "৭", "৮", "৯",
      "૦", "૧", "૨", "૩", "૪", "૫", "૬", "૭", "૮", "૯",
      "௦", "௧", "௨", "௩", "௪", "௫", "௬", "௭", "௮", "௯",
      "೦", "೧", "೨", "೩", "೪", "೫", "೬", "೭", "೮", "೯",
      "෦", "෧", "෨", "෩", "෪", "෫", "෬", "෭", "෮", "෯",
      "໐", "໑", "໒", "໓", "໔", "໕", "໖", "໗", "໘", "໙",
      "႐", "႑", "႒", "႓", "႔", "႕", "႖", "႗", "႘", "႙",
      "០", "១", "២", "៣", "៤", "៥", "៦", "៧", "៨", "៩",
      "᧐", "᧑", "᧒", "᧓", "᧔", "᧕", "᧖", "᧗", "᧘", "᧙",
      "᪀", "᪁", "᪂", "᪃", "᪄", "᪅", "᪆", "᪇", "᪈", "᪉",
      "᪐", "᪑", "᪒", "᪓", "᪔", "᪕", "᪖", "᪗", "᪘", "᪙",
      "᮰", "᮱", "᮲", "᮳", "᮴", "᮵", "᮶", "᮷", "᮸", "᮹",
      "꣐", "꣑", "꣒", "꣓", "꣔", "꣕", "꣖", "꣗", "꣘", "꣙",
      "꧐", "꧑", "꧒", "꧓", "꧔", "꧕", "꧖", "꧗", "꧘", "꧙",
      "꧰", "꧱", "꧲", "꧳", "꧴", "꧵", "꧶", "꧷", "꧸", "꧹",
      "꯰", "꯱", "꯲", "꯳", "꯴", "꯵", "꯶", "꯷", "꯸", "꯹" >>

DigitSet == {DigitChars[i] : i \in 1..Len(DigitChars)}

\* \d of a str pattern: any decimal digit, of any script.
IsDigit(c) == c \in DigitSet

\* The value int() and float() give the digit c.
DigitVal(c) == ((CHOOSE i \in 1..Len(DigitChars) : DigitChars[i] = c) - 1) % 10

\* The end of the longest run of digits of t that begins at i (i - 1: none).
DigitsEnd(t, i) ==
    CHOOSE j \in (i - 1)..Len(t) :
        /\ \A k \in i..j : IsDigit(t[k])
        /\ j = Len(t) \/ ~IsDigit(t[j + 1])

\* The number written by the digits t[i..j].
RECURSIVE DigitsVal(_, _, _)
DigitsVal(t, i, j) ==
    IF j < i THEN 0 ELSE 10 * DigitsVal(t, i, j - 1) + DigitVal(t[j])

\* [-+]?\d+ matches at i: where its digits begin (0: no match at i).
NumberAt(t, i) ==
    IF t[i] \in {"-", "+"} /\ i < Len(t) /\ IsDigit(t[i + 1]) THEN i + 1
    ELSE IF IsDigit(t[i]) THEN i
    ELSE 0

\* Natural numbers of any length, for the arithmetic of float(), round() and
\* repr(): the decimal digits of the number, units first.
RECURSIVE BigOfNat(_)
BigOfNat(n) == IF n = 0 THEN <<>> ELSE <<n % 10>> \o BigOfNat(n \div 10)

\* The small natural number that the long natural a is.
RECURSIVE BigToNat(_)
BigToNat(a) == IF a = <<>> THEN 0 ELSE Head(a) + 10 * BigToNat(Tail(a))

\* The number written by the digits t[i..j], as a long natural.
BigOfDigits(t, i, j) ==
    IF j < i THEN <<>> ELSE [k \in 1..(j - i + 1) |-> DigitVal(t[j - k + 1])]

\* 10^n
TenTo(n) == [k \in 1..(n + 1) |-> IF k = n + 1 THEN 1 ELSE 0]

\* The digit of a that counts 10^(k - 1).
DigitAt(a, k) == IF k >= 1 /\ k <= Len(a) THEN a[k] ELSE 0

\* a without the n digits below the one that counts 10^n: a \div 10^n.
DropBelow(a, n) == IF n >= Len(a) THEN <<>> ELSE SubSeq(a, n + 1, Len(a))

\* a without its leading zeros.
BigTrim(a) ==
    IF \A k \in 1..Len(a) : a[k] = 0 THEN <<>>
    ELSE SubSeq(a, 1, CHOOSE i \in 1..Len(a) :
                          a[i] # 0 /\ \A j \in (i + 1)..Len(a) : a[j] = 0)

\* a * k + carry, for a long natural a and small k and carry: digit by
\* digit, the lower half of the digits first and what it carries into the
\* upper half.
RECURSIVE BigTimes(_, _, _)
BigTimes(a, k, carry) ==
    LET Upper(low, half) ==
            SubSeq(low, 1, half)
                \o BigTimes(SubSeq(a, half + 1, Len(a)), k, BigToNat(DropBelow(low, half)))
    IN  IF Len(a) = 0 THEN BigOfNat(carry)
        ELSE IF Len(a) = 1
        THEN <<(a[1] * k + carry) % 10>> \o BigOfNat((a[1] * k + carry) \div 10)
        ELSE Upper(BigTimes(SubSeq(a, 1, Len(a) \div 2), k, carry), Len(a) \div 2)

\* a * m^k, for m of 2 and 5: by a power of less than 10^8 at a time.
RECURSIVE BigPower(_, _, _)
BigPower(a, m, k) ==
    IF a = <<>> \/ k = 0 THEN a
    ELSE IF k <= 11 \/ (m = 2 /\ k <= 26) THEN BigTimes(a, m^k, 0)
    ELSE BigPower(BigPower(a, m, k \div 2), m, k - k \div 2)

\* a - 1, for a > 0.
BigMinusOne(a) ==
    [j \in 1..Len(a) |->
        IF \A i \in 1..j : a[i] = 0 THEN 9
        ELSE IF \A i \in 1..(j - 1) : a[i] = 0 THEN a[j] - 1
        ELSE a[j]]

\* -1, 0 or 1 as a is less than, equal to or greater than b.
BigCmp(a, b) ==
    LET First(x, y) == CHOOSE k \in 1..Len(x) :
                           x[k] # y[k] /\ \A j \in (k + 1)..Len(x) : x[j] = y[j]
        Cmp(x, y) ==
            IF Len(x) # Len(y) THEN (IF Len(x) < Len(y) THEN -1 ELSE 1)
            ELSE IF \A k \in 1..Len(x) : x[k] = y[k] THEN 0
            ELSE IF x[First(x, y)] < y[First(x, y)] THEN -1 ELSE 1
    IN  Cmp(BigTrim(a), BigTrim(b))

\* The binade of p / 10^n > 0, the b with 2^b <= p / 10^n < 2^(b + 1), as far
\* as the doubles go: 1024 for a number of more than 309 digits, which is
\* beyond them all, and -1022 for every number below 2^-1022, the normal
\* doubles' least.  The search begins at a power of two that is below the
\* number by its count of digits, 3.321 being less than log2(10).
Binade(p, n) ==
    LET WholeAt(w, up, below) ==
            up + (CHOOSE j \in 0..4 :
                      /\ BigCmp(BigTimes(below, 2^j, 0), w) <= 0
                      /\ BigCmp(w, BigTimes(below, 2^(j + 1), 0)) < 0)
        WholeFrom(w, up) == WholeAt(w, up, BigPower(<<1>>, 2, up))
        PartAt(down, above) ==
            down + (CHOOSE j \in 1..6 :
                        /\ BigCmp(BigTimes(above, 2^j, 0), TenTo(n)) >= 0
                        /\ BigCmp(BigTimes(above, 2^(j - 1), 0), TenTo(n)) < 0)
        Least(j) == IF j > 1022 THEN -1022 ELSE 0 - j
        PartFrom(q, down) ==
            IF down + 1 > 1022 THEN -1022 ELSE Least(PartAt(down, BigPower(q, 2, down)))
        Of(w, q) ==
            IF w = <<>> THEN PartFrom(q, ((n - Len(q)) * 3321) \div 1000)
            ELSE IF Len(w) > 309 THEN 1024
            ELSE WholeFrom(w, ((Len(w) - 1) * 3321) \div 1000)
    IN  Of(BigTrim(DropBelow(p, n)), BigTrim(p))

\* scaled / 10^drop to the nearest even number, and to the multiple of four
\* when two even numbers are equally near.
RoundToEven(scaled, drop) ==
    IF DigitAt(scaled, drop + 1) % 2 = 0 THEN DropBelow(scaled, drop)
    ELSE IF \/ \E k \in 1..drop : DigitAt(scaled, k) # 0
            \/ (DigitAt(scaled, drop + 1) + 10 * DigitAt(scaled, drop + 2)) % 4 = 3
    THEN BigTimes(DropBelow(scaled, drop), 1, 1)
    ELSE <<DigitAt(scaled, drop + 1) - 1>> \o DropBelow(scaled, drop + 1)

\* float() of a number written in digits, p / 10^n: the double nearest to it,
\* the one with the even mantissa when two are equally near.  A double is
\* inf, or the number h / 2^sh (h * 2^-sh) with h an even long natural and
\* sh <= 1075, 2^53 <= h < 2^54 for a normal double; the doubles about it are
\* h - 2 and h + 2 over 2^sh, and h is <<>> for 0.0.  The number is counted
\* in halves of the step of the doubles of its binade and rounded to an even
\* count of them: p * 2^sh / 10^n, which for sh < 0 is p * 5^-sh / 10^(n - sh);
\* a count that reaches 2^54 is 2^53 of the next binade, and inf beyond the
\* last one.
ToDouble(p, n) ==
    LET Normal(h, sh) ==
            IF BigCmp(h, BigPower(<<1>>, 2, 54)) = 0
            THEN (IF sh = -970 THEN [inf |-> TRUE, h |-> <<>>, sh |-> 0]
                  ELSE [inf |-> FALSE, h |-> BigPower(<<1>>, 2, 53), sh |-> sh - 1])
            ELSE [inf |-> FALSE, h |-> h, sh |-> IF h = <<>> THEN 0 ELSE sh]
        Halves(sh) ==
            IF sh >= 0 THEN RoundToEven(BigPower(p, 2, sh), n)
            ELSE RoundToEven(BigPower(p, 5, 0 - sh), n - sh)
        At(b) ==
            IF b > 1023 THEN [inf |-> TRUE, h |-> <<>>, sh |-> 0]
            ELSE Normal(BigTrim(Halves(53 - b)), 53 - b)
    IN  IF BigTrim(p) = <<>> THEN [inf |-> FALSE, h |-> <<>>, sh |-> 0]
        ELSE At(Binade(p, n))

\* What a finite double is exactly, in decimal digits: digits / 10^q.
ExactDecimal(x) ==
    IF x.sh > 0 THEN [digits |-> BigPower(x.h, 5, x.sh), q |-> x.sh]
    ELSE [digits |-> BigPower(x.h, 2, 0 - x.sh), q |-> 0]

\* The tenths nearest to a finite double, the even one when two are equally
\* near: of its exact digits the ones from the tenths up, and one more when
\* what is cut is more than a half, or is a half and the tenths are odd.
TenthsOf(x) ==
    LET UpIf(keep, up) == IF up THEN BigTimes(keep, 1, 1) ELSE keep
        Nearest(digits, q) ==
            IF q = 0 THEN <<0>> \o digits
            ELSE UpIf(DropBelow(digits, q - 1),
                      \/ DigitAt(digits, q - 1) > 5
                      \/ /\ DigitAt(digits, q - 1) = 5
                         /\ \/ \E k \in 1..(q - 2) : DigitAt(digits, k) # 0
                            \/ DigitAt(digits, q) % 2 = 1)
    IN  BigTrim(Nearest(ExactDecimal(x).digits, IF x.sh > 0 THEN x.sh ELSE 0))

\* round(x, 1) of a double: the double nearest to the tenth nearest to x.
Round1(x) == IF x.inf \/ x.h = <<>> THEN x ELSE ToDouble(TenthsOf(x), 1)

\* Of the two numbers of k digits about v (below: v with its last z digits
\* 0; above: the next such number), the one that float() reads as the double
\* between low and high, the two middles to its neighbours (read as it when
\* its mantissa is even: closed): the nearer to v when both do and the one
\* with the even last digit when they are equally near; <<>> when neither
\* does.
Candidate(v, z, low, high, closed) ==
    LET ReadsBack(c) == IF closed THEN BigCmp(low, c) <= 0 /\ BigCmp(c, high) <= 0
                        ELSE BigCmp(low, c) < 0 /\ BigCmp(c, high) < 0
        Nearer(below, above, side) ==
            IF side < 0 \/ (side = 0 /\ v[z + 1] % 2 = 0) THEN below ELSE above
        Pick(below, above, okb, oka) ==
            IF okb /\ oka
            THEN Nearer(below, above, BigCmp(BigTimes(SubSeq(v, 1, z), 2, 0), TenTo(z)))
            ELSE IF okb THEN below
            ELSE IF oka THEN above
            ELSE <<>>
        Both(below, above) == Pick(below, above, ReadsBack(below), ReadsBack(above))
    IN  Both([i \in 1..Len(v) |-> IF i <= z THEN 0 ELSE v[i]],
             [i \in 1..z |-> 0] \o BigTimes(DropBelow(v, z), 1, 1))

\* The number of the fewest digits, k or more, that reads back as the double
\* v (v, low and high in units of 10^-q): v itself when none is shorter.
RECURSIVE Shortest(_, _, _, _, _)
Shortest(v, k, low, high, closed) ==
    LET Or(c) == IF c # <<>> THEN c ELSE Shortest(v, k + 1, low, high, closed)
    IN  IF k >= Len(v) THEN v
        ELSE Or(Candidate(v, Len(v) - k, low, high, closed))

\* The digits repr() writes for a finite double x other than 0.0, in units
\* of 10^-q, q the greater of x.sh + 1 and 0: the shortest number that
\* float() reads as x.  The numbers are counted in quarters of the step of
\* x; the doubles about x are a whole step away, but the one below a power of
\* two is half a step.
ShortestDigits(x) ==
    LET Quarters(h) == ExactDecimal([inf |-> FALSE, h |-> h, sh |-> x.sh + 1]).digits
    IN  Shortest(BigTrim(Quarters(BigTimes(x.h, 2, 0))), 1,
                 IF x.h = BigPower(<<1>>, 2, 53) /\ x.sh < 1075
                 THEN Quarters(BigMinusOne(BigTimes(x.h, 2, 0)))
                 ELSE Quarters(BigTimes(BigMinusOne(x.h), 2, 0)),
                 Quarters(BigTimes(x.h, 2, 2)),
                 (DigitAt(x.h, 1) + 10 * DigitAt(x.h, 2)) % 4 = 0)

\* The digits of the long natural a from the one that counts 10^(j - 1) down
\* to the one that counts 10^(i - 1), as text.
DigitText(a, i, j) ==
    IF j < i THEN <<>> ELSE [k \in 1..(j - i + 1) |-> DigitChars[DigitAt(a, j - k + 1) + 1]]

\* The digits of a natural number.
RECURSIVE NatText(_)
NatText(n) ==
    IF n < 10 THEN <<DigitChars[n + 1]>> ELSE NatText(n \div 10) \o <<DigitChars[(n % 10) + 1]>>

\* repr(x), float.__repr__, of a double that is not negative.  The digits of
\* a finite one are a / 10^q: they are written from the first to the last
\* that is not 0 (digit u of a, s digits in all), p of them before the point,
\* and with an exponent (e+16, e-05) when p > 16 or p < -3.
Repr(x) ==
    LET Zeros(n) == [k \in 1..n |-> "0"]
        Exponent(e) ==
            <<"e", IF e < 0 THEN "-" ELSE "+">>
                \o (IF e > -10 /\ e < 10 THEN <<"0">> ELSE <<>>)
                \o NatText(IF e < 0 THEN 0 - e ELSE e)
        Write(a, u, s, p) ==
            IF p > 16 \/ p < -3
            THEN DigitText(a, Len(a), Len(a))
                     \o (IF s > 1 THEN <<".">> \o DigitText(a, u, Len(a) - 1) ELSE <<>>)
                     \o Exponent(p - 1)
            ELSE IF p <= 0 THEN <<"0", ".">> \o Zeros(0 - p) \o DigitText(a, u, Len(a))
            ELSE IF s <= p THEN DigitText(a, u, Len(a)) \o Zeros(p - s) \o <<".", "0">>
            ELSE DigitText(a, Len(a) - p + 1, Len(a)) \o <<".">> \o DigitText(a, u, Len(a) - p)
        From(a, u, q) == Write(a, u, Len(a) + 1 - u, Len(a) - q)
        Of(a, q) ==
            From(a, CHOOSE i \in 1..Len(a) : a[i] # 0 /\ \A j \in 1..(i - 1) : a[j] = 0, q)
    IN  IF x.inf THEN <<"i", "n", "f">>
        ELSE IF x.h = <<>> THEN <<"0", ".", "0">>
        ELSE Of(BigTrim(ShortestDigits(x)), IF x.sh + 1 > 0 THEN x.sh + 1 ELSE 0)

\* A percentage nobody extracted (pct is None).
NoPct == [found |-> FALSE, big |-> FALSE, tenths |-> 0, negzero |-> FALSE]

\* A percentage of less than 10^8 either way: its tenths, and negzero, that
\* it is the float -0.0.
SmallPct(tenths, negzero) ==
    [found |-> TRUE, big |-> FALSE, tenths |-> tenths, negzero |-> negzero]

\* The percentage that the double x is, x rounded to one decimal place and
\* not negative, taken with the sign negative.  A percentage of 10^8 or more
\* either way, inf included, is kept as its sign and the repr() of the float.
PctOfDouble(x, negative) ==
    LET Signed(n) == IF negative THEN 0 - n ELSE n
        Of(tenths) ==
            IF ~x.inf /\ BigCmp(tenths, TenTo(9)) < 0
            THEN SmallPct(Signed(BigToNat(tenths)), negative /\ tenths = <<>>)
            ELSE [found |-> TRUE, big |-> TRUE, negative |-> negative,
                  repr |-> (IF negative THEN <<"-">> ELSE <<>>) \o Repr(x)]
    IN  Of(IF x.inf THEN <<>> ELSE TenthsOf(x))

\* round(float(group), 1) for the match whose digits begin at d.  A number of
\* at most eight digits and at most one decimal is the tenth nearest to its
\* double, and is not put through float() here.
PctAt(t, d) ==
    LET e == DigitsEnd(t, d)
        frac == e + 2 <= Len(t) /\ t[e + 1] = "." /\ IsDigit(t[e + 2])
        f == IF frac THEN DigitsEnd(t, e + 2) ELSE e
        negative == d > 1 /\ t[d - 1] = "-"
        down == 10 * DigitsVal(t, d, e) + (IF frac THEN DigitVal(t[e + 2]) ELSE 0)
    IN  IF f <= e + 2 /\ e - d < 8
        THEN SmallPct(IF negative THEN 0 - down ELSE down, negative /\ down = 0)
        ELSE PctOfDouble(Round1(ToDouble(BigOfDigits(t, e + 2, f) \o BigOfDigits(t, d, e),
                                         f - e - (IF frac THEN 1 ELSE 0))),
                         negative)

\* re.search(r"([-+]?\d+(\.\d+)?)", text), then round(float(group(1)), 1):
\* the leftmost number of the text.
ExtractPct(text) ==
    IF \E i \in 1..Len(text) : NumberAt(text, i) # 0
    THEN PctAt(text, NumberAt(text, CHOOSE k \in 1..Len(text) :
                                        /\ NumberAt(text, k) # 0
                                        /\ \A m \in 1..(k - 1) : NumberAt(text, m) = 0))
    ELSE NoPct

\* f"{pct}%": the repr() of the float, which for a percentage of one decimal
\* place and less than 10^8 is its digits (452 tenths is "45.2%", and the
\* float -0.0 is "-0.0%"), and a per cent sign.
FormatPct(pct) ==
    IF pct.big THEN pct.repr \o <<"%">>
    ELSE (IF pct.tenths < 0 \/ pct.negzero THEN <<"-">> ELSE <<>>)
             \o NatText((IF pct.tenths < 0 THEN 0 - pct.tenths ELSE pct.tenths) \div 10)
             \o <<".">>
             \o NatText((IF pct.tenths < 0 THEN 0 - pct.tenths ELSE pct.tenths) % 10)
             \o <<"%">>

\* A bucketing whose upper threshold is exclusive.
Bucket_ExclusiveHigh(pct) ==
    IF pct > 350 THEN [label |-> "High", score |-> 85]
    ELSE IF pct >= 150 THEN [label |-> "Medium", score |-> 55]
    ELSE [label |-> "Low", score |-> 20]

\* get_trends: label and score derived from the extracted pct.  The labels
\* of the source end in an emoji, left out here.
Bucket(pct) ==
    IF pct >= 350 THEN [label |-> "High", score |-> 85]
    ELSE IF pct >= 150 THEN [label |-> "Medium", score |-> 55]
    ELSE [label |-> "Low", score |-> 20]

\* assign_random_metrics: label and score of the generated pct.
RandomBucket(pct) ==
    IF pct >= 350 THEN [label |-> "High", score |-> 85]
    ELSE IF pct >= 150 THEN [label |-> "Medium", score |-> 55]
    ELSE [label |-> "Low", score |-> 20]

\* random.uniform(3.0, 65.0) rounded to one decimal place
RandomLo == 30
RandomHi == 650

\* assign_random_metrics(), with rnd the value random.uniform produced.
AssignRandomMetrics(rnd) ==
    [pct |-> rnd, label |-> RandomBucket(rnd).label, score |-> RandomBucket(rnd).score]

\* str(trend.get("change_pct")) of the elements the model is made to send.
PctTexts ==
    << <<"4", "5", ".", "2", "%">>,
       <<"-", "5", "%">>,
       <<"1", "2", "0", "%">>,
       <<"n", "/", "a">> >>

\* A missing key read as the percentage 0.
ModelPct_MissingIsZero(e) ==
    IF e.change_pct = 0 THEN SmallPct(0, FALSE)
    ELSE ExtractPct(PctTexts[e.change_pct])

\* The pct of lines 155-162: None without the key, else what the regular
\* expression finds in the value.
ModelPct(e) == IF e.change_pct = 0 THEN NoPct ELSE ExtractPct(PctTexts[e.change_pct])

\* One element of a parsed reply: a JSON object (dict) with or without the
\* keys change_pct (0: without, else its place in PctTexts) and popularity,
\* or a JSON scalar; rnd is what random.uniform gives if the element needs it.
Dict(c, p, r) == [dict |-> TRUE, change_pct |-> c, popularity |-> p, rnd |-> r]

\* The elements the model is made to send: a percentage with and without a
\* label that contradicts it, percentages below 0 and above 70, elements
\* with no key for both ends of the generated range, and one with no number
\* in its value.
Elements ==
    {Dict(1, "absent", RandomLo), Dict(1, "Low", RandomLo),
     Dict(2, "Low", RandomLo), Dict(3, "absent", RandomLo),
     Dict(0, "absent", RandomLo), Dict(0, "absent", RandomHi),
     Dict(4, "Low", RandomHi)}

Scalar == [dict |-> FALSE, change_pct |-> 0, popularity |-> "absent", rnd |-> RandomLo]

\* The body of "for trend in parsed" on one dict: the fields the handler
\* writes.  src (the place of the city in the request) and random (the pct
\* was generated) are history, not fields of the response.  The thresholds
\* of the labels see a percentage of 10^8 or more as 10^8, which is beyond
\* them all; pct_change is then the repr() of the float.
ProcessTrend(e, src) ==
    LET Record(m, r, pct) ==
            [src |-> src,
             random |-> ~m.found,
             pct_change |-> IF m.big THEN m.repr ELSE pct,
             change_pct |-> FormatPct(IF m.found THEN m ELSE SmallPct(r.pct, FALSE)),
             popularity_score |-> IF m.found THEN Bucket(pct).score ELSE r.score,
             popularity |-> IF e.popularity # "absent" THEN e.popularity
                            ELSE IF m.found THEN Bucket(pct).label
                            ELSE r.label]
        Thresholds(m, r) ==
            Record(m, r, IF ~m.found THEN r.pct
                         ELSE IF ~m.big THEN m.tenths
                         ELSE IF m.negative THEN 0 - 1000000000 ELSE 1000000000)
    IN  Thresholds(ModelPct(e), AssignRandomMetrics(e.rnd))

\* The element appended by the except clause of the city's try block.
ErrorElement(src, city, error) == [src |-> src, city |-> city, error |-> error]

IsError(rec) == "error" \in DOMAIN rec

RECURSIVE SeqsUpTo(_, _)
SeqsUpTo(S, n) ==
    IF n = 0 THEN {<<>>}
    ELSE LET shorter == SeqsUpTo(S, n - 1)
         IN  shorter \cup {Append(q, x) : q \in {p \in shorter : Len(p) = n - 1}, x \in S}

\* json.loads("[]") is the empty list.
EmptyArray == <<"[", "]">>

\* Replies that hold no [...] span: no bracket at all, and "] [".
NoSpanTexts == {<<"n", "o", "n", "e">>, <<"]", " ", "[">>}

\* A reply whose span, "[x]c]", is not JSON.
BadSpanText == <<"a", "]", "b", "[", "x", "]", "c", "]", "d">>

\* A reply that wraps a JSON array in prose: "Ok:" before it and "." after
\* it.  The array is that of the items, written as json.loads reads them: a
\* dict as an object with its change_pct and popularity keys, when it has
\* them, and the empty list of tips of the prompt's format; an element that
\* is not a dict as the number 1.
ArrayText(items) ==
    LET Quoted(t) == <<"\"">> \o t \o <<"\"">>
        Key(name) == Quoted(name) \o <<":">>
        PopularityText == [Low |-> <<"L", "o", "w">>]
        Element(e) ==
            IF ~e.dict THEN <<"1">>
            ELSE <<"{">>
                 \o (IF e.change_pct = 0 THEN <<>>
                     ELSE Key(<<"c", "h", "a", "n", "g", "e", "_", "p", "c", "t">>)
                              \o Quoted(PctTexts[e.change_pct]) \o <<",">>)
                 \o (IF e.popularity = "absent" THEN <<>>
                     ELSE Key(<<"p", "o", "p", "u", "l", "a", "r", "i", "t", "y">>)
                              \o Quoted(PopularityText[e.popularity]) \o <<",">>)
                 \o Key(<<"t", "i", "p", "s">>) \o <<"[", "]", "}">>
        Array[n \in 0..Len(items)] ==
            IF n = 0 THEN <<>>
            ELSE Array[n - 1] \o (IF n = 1 THEN <<>> ELSE <<",">>) \o Element(items[n])
    IN  <<"O", "k", ":", "[">> \o Array[Len(items)] \o <<"]", ".">>

\* The match that stops at the first "]" after the first "[".
CleanJsonResponse_Lazy(text) ==
    LET opens == {i \in 1..Len(text) :
                     text[i] = "[" /\ \E j \in (i + 1)..Len(text) : text[j] = "]"}
    IN  IF opens = {} THEN EmptyArray
        ELSE LET i == CHOOSE a \in opens : \A b \in opens : a <= b
                 closes == {j \in (i + 1)..Len(text) : text[j] = "]"}
                 j == CHOOSE a \in closes : \A b \in closes : a <= b
             IN  SubSeq(text, i, j)

\* clean_json_response: re.search of "\[.*\]" with DOTALL takes the leftmost
\* "[" that has a "]" after it and runs to the last such "]"; without a match
\* the text "[]" is returned.
CleanJsonResponse(text) ==
    LET opens == {i \in 1..Len(text) :
                     text[i] = "[" /\ \E j \in (i + 1)..Len(text) : text[j] = "]"}
    IN  IF opens = {} THEN EmptyArray
        ELSE LET i == CHOOSE a \in opens : \A b \in opens : a <= b
                 closes == {j \in (i + 1)..Len(text) : text[j] = "]"}
                 j == CHOOSE a \in closes : \A b \in closes : a >= b
             IN  SubSeq(text, i, j)

\* What the two outbound calls for one city can do: the search raises, the
\* model call raises, or the model replies with a text.  span is what
\* json.loads makes of the span clean_json_response takes from the text:
\* "none" for a text without one, "bad" when it is not JSON, "array" when it
\* is a JSON array, whose elements are the items: the text is then the one
\* that spells them out.
CityOutcomes ==
    [kind : {"search_error", "invoke_error"}, span : {"none"}, items : {<<>>},
     text : {<<>>}]
        \cup [kind : {"reply"}, span : {"none"}, items : {<<>>}, text : NoSpanTexts]
        \cup [kind : {"reply"}, span : {"bad"}, items : {<<>>}, text : {BadSpanText}]
        \cup {[kind |-> "reply", span |-> "array", items |-> items,
                text |-> ArrayText(items)] :
                   items \in SeqsUpTo(Elements \cup {Scalar}, MaxTrends)}

\* The records added one by one as they are processed: those before an
\* element that is not a dict stay in front of the error element.
CityResult_AddsAsItGoes(src, city, out) ==
    IF out.kind # "reply" THEN <<ErrorElement(src, city, out.kind)>>
    ELSE IF CleanJsonResponse(out.text) = EmptyArray THEN <<>>
    ELSE IF out.span # "array" THEN <<ErrorElement(src, city, "json_error")>>
    ELSE LET bad == {i \in 1..Len(out.items) : ~out.items[i].dict}
             n == IF bad = {} THEN Len(out.items)
                  ELSE (CHOOSE a \in bad : \A b \in bad : a <= b) - 1
         IN  [i \in 1..n |-> ProcessTrend(out.items[i], src)]
                 \o (IF bad = {} THEN <<>>
                     ELSE <<ErrorElement(src, city, "type_error")>>)

\* What one pass of the loop over request.cities adds to all_trends: the
\* records of the reply, or one error element when anything in the try block
\* raised (the search, the model call, json.loads, or the membership test on
\* an element that is not a dict).
CityResult(src, city, out) ==
    IF out.kind # "reply" THEN <<ErrorElement(src, city, out.kind)>>
    ELSE IF CleanJsonResponse(out.text) = EmptyArray THEN <<>>
    ELSE IF out.span # "array" THEN <<ErrorElement(src, city, "json_error")>>
    ELSE IF \E i \in 1..Len(out.items) : ~out.items[i].dict
         THEN <<ErrorElement(src, city, "type_error")>>
    ELSE [i \in 1..Len(out.items) |-> ProcessTrend(out.items[i], src)]

\* An assignment in place of the append: an error element replaces what the
\* earlier cities gave.
Extend_ErrorReplaces(all, added) ==
    IF added # <<>> /\ IsError(added[1]) THEN added ELSE all \o added

\* all_trends.extend(parsed), or all_trends.append of the error element.
Extend(all, added) == all \o added

\* The request.cities the handler is run with.
CityLists == {<<>>, <<"Delhi">>, <<"Delhi", "Pune">>}

InitTrends ==
    /\ tpc = "idle"
    /\ cities = <<>>
    /\ ti = 0
    /\ all_trends = <<>>
    /\ tlog = <<>>
    /\ cleaned = <<>>

\* A request arrives: all_trends = [] and the loop is at the first city.
TrendsStart(cs) ==
    /\ tpc = "idle"
    /\ cities' = cs
    /\ ti' = 1
    /\ tpc' = "loop"
    /\ UNCHANGED <<all_trends, tlog, cleaned, plannerVars, summaryVars, bucketVars, listingVars, imagesVars, reportVars>>

\* One pass of the loop: the search, the model call, the parsing and the
\* post-processing for the city, or the except clause.
TrendsCity(out) ==
    /\ tpc = "loop"
    /\ ti <= Len(cities)
    /\ all_trends' = Extend(all_trends, CityResult(ti, cities[ti], out))
    /\ tlog' = Append(tlog, out)
    /\ cleaned' = Append(cleaned, IF out.kind = "reply"
                                  THEN CleanJsonResponse(out.text) ELSE <<>>)
    /\ ti' = ti + 1
    /\ UNCHANGED <<tpc, cities, plannerVars, summaryVars, bucketVars, listingVars, imagesVars, reportVars>>

\* The loop is over: {"trends": all_trends} is returned.
TrendsReturn ==
    /\ tpc = "loop"
    /\ ti > Len(cities)
    /\ tpc' = "done"
    /\ UNCHANGED <<cities, ti, all_trends, tlog, cleaned, plannerVars, summaryVars, bucketVars, listingVars, imagesVars, reportVars>>

NextTrends ==
    \/ \E cs \in CityLists : TrendsStart(cs)
    \/ \E out \in CityOutcomes : TrendsCity(out)
    \/ TrendsReturn

----------------------------------------------------------------------------
(* The percentage bucketing as a function                                   *)

\* The largest percentage the bucketing is applied to, in tenths (100.0).
MaxPct == 1000

NoBucket == [label |-> "none", score |-> 0]

IdleBucket ==
    /\ bpct = 0
    /\ bout = [model |-> NoBucket, random |-> NoBucket]

\* Both copies of the bucketing are applied to the percentage.
ApplyBucket ==
    /\ bout.model = NoBucket
    /\ bout' = [model |-> Bucket(bpct), random |-> RandomBucket(bpct)]
    /\ UNCHANGED <<bpct, plannerVars, summaryVars, trendsVars, listingVars, imagesVars, reportVars>>

NextBucket == ApplyBucket

----------------------------------------------------------------------------
(* Listing generation: POST / of the listing router,                        *)
(* product_listing_routes.py                                                *)

\* The content types, in the order the handler creates their tasks; each
\* stands for its option key, its parser class and its slot.
ContentTypes == <<"seo", "whatsapp", "conversational">>

TypeSet == {ContentTypes[i] : i \in 1..Len(ContentTypes)}

\* content_options_str as parsed: a mapping whose truthy keys are the
\* requested types, or a text json.loads rejects.
OptionInputs ==
    [valid : {TRUE}, requested : SUBSET TypeSet]
        \cup {[valid |-> FALSE, requested |-> {}]}

NoContent == [status |-> 0, slots |-> {}]

\* HTTPException(500), from the key check, the all-null check or the outer
\* except clause.
ServiceError == [status |-> 500, slots |-> {}]

InitListing ==
    /\ lpc = "idle"
    /\ content_options = [valid |-> TRUE, requested |-> {}]
    /\ image_description = ""
    /\ tasks = [t \in TypeSet |-> "none"]
    /\ final_content = NoContent

\* generate_content_part: the parsed object of the part's class, or None
\* when anything in it raised.
PartResult(t, ok) == IF ok THEN t ELSE "None"

\* A gather that returns as soon as one task has finished.
GatherDone_FirstCompleted(ts) ==
    (\A t \in TypeSet : ts[t] = "none") \/ (\E t \in TypeSet : ts[t] \notin {"none", "pending"})

\* asyncio.gather(*tasks) returns when every task has returned.
GatherDone(ts) == \A t \in TypeSet : ts[t] # "pending"

\* results, in task order; a task gather did not wait for gives nothing.
Results(ts) ==
    LET made == SelectSeq(ContentTypes, LAMBDA t : ts[t] # "none")
    IN  [i \in 1..Len(made) |-> IF ts[made[i]] = "pending" THEN "None" ELSE ts[made[i]]]

\* The isinstance chain: a result of a part's class fills that part's slot.
Slots(results) == {t \in TypeSet : \E i \in 1..Len(results) : results[i] = t}

\* The all-null check left out.
Assemble_NoCheck(results) == [status |-> 200, slots |-> Slots(results)]

\* final_content, or the 500 when none of the three slots was filled.
Assemble(results) ==
    IF Slots(results) = {} THEN ServiceError
    ELSE [status |-> 200, slots |-> Slots(results)]

\* The handler from json.loads to the await of gather: a task per requested
\* type, or the outer except clause when the options do not parse.
BeginParts(opts) ==
    IF opts.valid
    THEN /\ tasks' = [t \in TypeSet |-> IF t \in opts.requested THEN "pending" ELSE "none"]
         /\ lpc' = "gather"
         /\ UNCHANGED final_content
    ELSE /\ lpc' = "done"
         /\ final_content' = ServiceError
         /\ UNCHANGED tasks

\* A request arrives: 500 without the API key; with an image the handler
\* awaits its analysis, without one it goes on to the parts.
ListingStart(opts, image, key) ==
    /\ lpc = "idle"
    /\ content_options' = opts
    /\ IF ~key
       THEN /\ lpc' = "done"
            /\ final_content' = ServiceError
            /\ UNCHANGED tasks
       ELSE IF image
       THEN /\ lpc' = "vision"
            /\ UNCHANGED <<tasks, final_content>>
       ELSE BeginParts(opts)
    /\ UNCHANGED <<image_description, plannerVars, summaryVars, trendsVars, bucketVars, imagesVars, reportVars>>

\* analyze_image_with_groq returns, with a description or with its fixed
\* text after an exception; the handler goes on to the parts.
ListingVision(ok) ==
    /\ lpc = "vision"
    /\ image_description' = IF ok THEN "described" ELSE "No image insight available."
    /\ BeginParts(content_options)
    /\ UNCHANGED <<content_options, plannerVars, summaryVars, trendsVars, bucketVars, imagesVars, reportVars>>

\* One sub-generation ends: its chain returned an object, or raised and the
\* part returned None.
ListingPart(t, ok) ==
    /\ lpc = "gather"
    /\ tasks[t] = "pending"
    /\ tasks' = [tasks EXCEPT ![t] = PartResult(t, ok)]
    /\ UNCHANGED <<lpc, content_options, image_description, final_content,
                   plannerVars, summaryVars, trendsVars, bucketVars, imagesVars, reportVars>>

\* gather returns: the response is assembled from the results.
ListingAssemble ==
    /\ lpc = "gather"
    /\ GatherDone(tasks)
    /\ final_content' = Assemble(Results(tasks))
    /\ lpc' = "done"
    /\ UNCHANGED <<content_options, image_description, tasks,
                   plannerVars, summaryVars, trendsVars, bucketVars, imagesVars, reportVars>>

NextListing ==
    \/ \E opts \in OptionInputs, image \in BOOLEAN, key \in BOOLEAN :
           ListingStart(opts, image, key)
    \/ \E ok \in BOOLEAN : ListingVision(ok)
    \/ \E t \in TypeSet, ok \in BOOLEAN : ListingPart(t, ok)
    \/ ListingAssemble

----------------------------------------------------------------------------
(* Feature images: GET /feature-images, trends_routes.py                    *)

\* The most image hits the search is made to return.
MaxHits == 7

\* The slice of line 242.
MaxImages == 6

Http == <<"h", "t", "t", "p">>

UrlOriginal == <<"h", "t", "t", "p", ":", "/", "/", "o">>
UrlThumbnail == <<"h", "t", "t", "p", "s", ":", "/", "/", "t">>
UrlFtp == <<"f", "t", "p", ":", "/", "/", "o">>

\* One element of images_results: its "original" and "thumbnail" values,
\* <<>> for a key that is missing, None or empty.  A hit with both keys, one
\* with a thumbnail only, one with neither, and one whose original is not an
\* http URL while its thumbnail is.
ImageHits ==
    {[original |-> UrlOriginal, thumbnail |-> UrlThumbnail],
     [original |-> <<>>, thumbnail |-> UrlThumbnail],
     [original |-> <<>>, thumbnail |-> <<>>],
     [original |-> UrlFtp, thumbnail |-> UrlOriginal]}

\* str.startswith
StartsWith(t, prefix) ==
    Len(t) >= Len(prefix) /\ SubSeq(t, 1, Len(prefix)) = prefix

\* img.get("original") or img.get("thumbnail")
PickUrl(img) == IF img.original # <<>> THEN img.original ELSE img.thumbnail

\* Line 235: the URL of every hit that has one.
ImageUrls(results) ==
    LET having == SelectSeq(results, LAMBDA img : PickUrl(img) # <<>>)
    IN  [i \in 1..Len(having) |-> PickUrl(having[i])]

\* The filter of line 236 left out.
HttpOnly_NoFilter(urls) == urls

\* Line 236: the URLs that start with "http".
HttpOnly(urls) == SelectSeq(urls, LAMBDA u : u # <<>> /\ StartsWith(u, Http))

\* image_urls[:6] if image_urls else []
FirstImages(urls) ==
    IF urls = <<>> THEN <<>>
    ELSE SubSeq(urls, 1, IF Len(urls) < MaxImages THEN Len(urls) ELSE MaxImages)

NoImages == [error |-> FALSE, images |-> <<>>]

\* The response of the except clause: feature, category and error, no images.
ImagesError == [error |-> TRUE, images |-> <<>>]

InitImages ==
    /\ ipc = "idle"
    /\ image_results = <<>>
    /\ iresp = NoImages

\* A request arrives and the query refinement call begins.
ImagesStart ==
    /\ ipc = "idle"
    /\ ipc' = "refine"
    /\ UNCHANGED <<image_results, iresp,
                   plannerVars, summaryVars, trendsVars, bucketVars, listingVars,
                   reportVars>>

\* llm.invoke returns and the image search begins, or it raises.
ImagesRefined(ok) ==
    /\ ipc = "refine"
    /\ IF ok
       THEN ipc' = "search" /\ UNCHANGED iresp
       ELSE ipc' = "done" /\ iresp' = ImagesError
    /\ UNCHANGED <<image_results,
                   plannerVars, summaryVars, trendsVars, bucketVars, listingVars,
                   reportVars>>

\* The search service puts one more hit into its result.
ImagesHit(img) ==
    /\ ipc = "search"
    /\ Len(image_results) < MaxHits
    /\ image_results' = Append(image_results, img)
    /\ UNCHANGED <<ipc, iresp,
                   plannerVars, summaryVars, trendsVars, bucketVars, listingVars,
                   reportVars>>

\* search.get_dict() returns and the response is built, or it raises.
ImagesReturn(ok) ==
    /\ ipc = "search"
    /\ ipc' = "done"
    /\ iresp' = IF ok
                THEN [error |-> FALSE,
                      images |-> FirstImages(HttpOnly(ImageUrls(image_results)))]
                ELSE ImagesError
    /\ UNCHANGED <<image_results,
                   plannerVars, summaryVars, trendsVars, bucketVars, listingVars,
                   reportVars>>

NextImages ==
    \/ ImagesStart
    \/ \E ok \in BOOLEAN : ImagesRefined(ok)
    \/ \E img \in ImageHits : ImagesHit(img)
    \/ \E ok \in BOOLEAN : ImagesReturn(ok)

----------------------------------------------------------------------------
(* The report of GET /full-report: parsing, validation and the festival     *)
(* dates, planner_routes.py                                                 *)

\* The most festivals the model is made to send.
MaxFestivals == 2

IsLeap(y) == y % 4 = 0 /\ (y % 100 # 0 \/ y % 400 = 0)

DaysInMonth(y, m) ==
    IF m = 2 THEN (IF IsLeap(y) THEN 29 ELSE 28)
    ELSE IF m \in {4, 6, 9, 11} THEN 30 ELSE 31

RECURSIVE DaysBeforeMonth(_, _)
DaysBeforeMonth(y, m) ==
    IF m = 1 THEN 0 ELSE DaysBeforeMonth(y, m - 1) + DaysInMonth(y, m - 1)

\* date.toordinal: the days from 0001-01-01, which is day 1.
Ordinal(dt) ==
    LET y == dt.y - 1
    IN  y * 365 + (y \div 4) - (y \div 100) + (y \div 400)
            + DaysBeforeMonth(dt.y, dt.m) + dt.d

NoDate == [ok |-> FALSE, y |-> 0, m |-> 0, d |-> 0]

AllDigits(t) == t # <<>> /\ \A i \in 1..Len(t) : IsDigit(t[i])

\* [1-9] of the directives %m and %d: these nine characters and no digit of
\* another script.
OneToNine == {"1", "2", "3", "4", "5", "6", "7", "8", "9"}

\* The directive %m: 1[0-2], 0[1-9] or [1-9].
MonthToken(t) ==
    \/ Len(t) = 2 /\ t[1] = "1" /\ t[2] \in {"0", "1", "2"}
    \/ Len(t) = 2 /\ t[1] = "0" /\ t[2] \in OneToNine
    \/ Len(t) = 1 /\ t[1] \in OneToNine

\* The directive %d: 3[0-1], [1-2]\d, 0[1-9], [1-9] or a space and [1-9].
\* The \d after 1 or 2 is a digit of any script.
DayToken(t) ==
    \/ Len(t) = 2 /\ t[1] = "3" /\ t[2] \in {"0", "1"}
    \/ Len(t) = 2 /\ t[1] \in {"1", "2"} /\ IsDigit(t[2])
    \/ Len(t) = 2 /\ t[1] = "0" /\ t[2] \in OneToNine
    \/ Len(t) = 1 /\ t[1] \in OneToNine
    \/ Len(t) = 2 /\ t[1] = " " /\ t[2] \in OneToNine

DayVal(t) == IF t[1] = " " THEN DigitVal(t[2]) ELSE DigitsVal(t, 1, Len(t))

\* datetime.strptime(text, "%Y-%m-%d").date(): the whole text is four digits
\* (%Y is \d\d\d\d, digits of any script), a month and a day with "-" between
\* them, read by int(), and they name a day of the calendar; anything else
\* raises ValueError.
Strptime(t) ==
    LET fits(lm, ld) ==
            /\ Len(t) = 6 + lm + ld
            /\ AllDigits(SubSeq(t, 1, 4))
            /\ t[5] = "-" /\ t[6 + lm] = "-"
            /\ MonthToken(SubSeq(t, 6, 5 + lm))
            /\ DayToken(SubSeq(t, 7 + lm, 6 + lm + ld))
        shapes == {s \in (1..2) \X (1..2) : fits(s[1], s[2])}
    IN  IF shapes = {} THEN NoDate
        ELSE LET s == CHOOSE x \in shapes : TRUE
                 y == DigitsVal(t, 1, 4)
                 m == DigitsVal(t, 6, 5 + s[1])
                 d == DayVal(SubSeq(t, 7 + s[1], 6 + s[1] + s[2]))
             IN  IF y >= 1 /\ d <= DaysInMonth(y, m)
                 THEN [ok |-> TRUE, y |-> y, m |-> m, d |-> d]
                 ELSE NoDate

MonthNames ==
    << <<"J", "a", "n", "u", "a", "r", "y">>,
       <<"F", "e", "b", "r", "u", "a", "r", "y">>,
       <<"M", "a", "r", "c", "h">>,
       <<"A", "p", "r", "i", "l">>,
       <<"M", "a", "y">>,
       <<"J", "u", "n", "e">>,
       <<"J", "u", "l", "y">>,
       <<"A", "u", "g", "u", "s", "t">>,
       <<"S", "e", "p", "t", "e", "m", "b", "e", "r">>,
       <<"O", "c", "t", "o", "b", "e", "r">>,
       <<"N", "o", "v", "e", "m", "b", "e", "r">>,
       <<"D", "e", "c", "e", "m", "b", "e", "r">> >>

\* dt_obj.strftime("%B %d, %Y"): the month's name, the day in two digits, a
\* comma and the year.
Strftime(dt) ==
    MonthNames[dt.m] \o <<" ">>
        \o (IF dt.d < 10 THEN <<"0">> ELSE <<>>) \o NatText(dt.d)
        \o <<",", " ">> \o NatText(dt.y)

\* The date texts the model is made to send.
DateTexts ==
    << <<"2", "0", "2", "5", "-", "0", "1", "-", "2", "6">>,
       <<"2", "0", "2", "4", "-", "1", "2", "-", "2", "5">>,
       <<"2", "0", "2", "4", "-", "0", "2", "-", "2", "9">>,
       <<"2", "0", "2", "5", "-", "3", "-", "9">>,
       <<"2", "0", "2", "5", "-", "0", "2", "-", "3", "0">>,
       <<"2", "6", "/", "0", "1", "/", "2", "0", "2", "5">>,
       <<"J", "a", "n", "u", "a", "r", "y", " ", "2", "6", ",", " ", "2", "0", "2", "5">>,
       <<"2", "0", "2", "5", "-", "0", "1", "-", "2", "৬">> >>

\* One element of upcomingFestivals as the model wrote it: its name, its
\* date, its daysLeft (0 when it wrote none) and the required keys it left
\* out.
FestivalOf(name, date, daysLeft, missing) ==
    [name |-> name, date |-> DateTexts[date], daysLeft |-> daysLeft, missing |-> missing]

Festivals ==
    {FestivalOf("Republic Day", 1, 0, {}),
     FestivalOf("Christmas", 2, 3, {}),
     FestivalOf("Leap Day", 3, 0, {}),
     FestivalOf("Holi", 4, 0, {}),
     FestivalOf("Mela", 5, 7, {}),
     FestivalOf("Lohri", 6, 0, {}),
     FestivalOf("Parade", 7, 25, {}),
     FestivalOf("Poush Mela", 8, 0, {}),
     FestivalOf("Diwali", 1, 0, {"urgency"})}

\* A value of PlannerResponse: its five lists.
Plan(festivals, others) ==
    [upcomingFestivals |-> festivals,
     topProductsToStock |-> others,
     nearbyDemand |-> others,
     avoidProducts |-> others,
     aiRecommendations |-> others]

\* Every field of PlannerResponse at its default.
EmptyPlan == Plan(<<>>, <<>>)

\* What the model answers: a text that is not JSON, or a JSON object that is
\* the plan or holds the plan under the key "InventoryPlan".
Completions ==
    [json : {TRUE}, wrapped : BOOLEAN,
     plan : {Plan(fs, o) : fs \in SeqsUpTo(Festivals, MaxFestivals),
                           o \in {<<>>, <<"item">>}}]
        \cup {[json |-> FALSE, wrapped |-> FALSE, plan |-> EmptyPlan]}

NoCompletion == [json |-> FALSE, wrapped |-> FALSE, plan |-> EmptyPlan]

\* Validation of a JSON object against PlannerResponse: a key the class does
\* not declare is ignored and a list that is not there takes its default, so
\* an object whose only key is "InventoryPlan" gives five empty lists; an
\* element that lacks a required key fails the whole object.
ModelValidate(c) ==
    IF c.wrapped THEN [kind |-> "model", plan |-> EmptyPlan]
    ELSE IF \E i \in 1..Len(c.plan.upcomingFestivals) :
                c.plan.upcomingFestivals[i].missing # {}
         THEN [kind |-> "raise", plan |-> EmptyPlan]
    ELSE [kind |-> "model", plan |-> c.plan]

\* chain.invoke: the last link of the chain is the PydanticOutputParser of
\* PlannerResponse, so the call gives a PlannerResponse or raises; it never
\* gives a dict.
ChainInvoke(c) ==
    IF ~c.json THEN [kind |-> "raise", plan |-> EmptyPlan] ELSE ModelValidate(c)

\* Lines 290-293: a dict with the key "InventoryPlan" gives its value.
CleanResponse(raw) ==
    IF raw.kind = "dict" /\ raw.wrapped
    THEN [kind |-> "dict", wrapped |-> FALSE, plan |-> raw.plan]
    ELSE raw

\* The except branch setting daysLeft back to its default.
NormalizeFestival_ResetOnFailure(f, day) ==
    LET dt == Strptime(f.date)
    IN  IF dt.ok
        THEN [f EXCEPT !.date = Strftime(dt), !.daysLeft = Ordinal(dt) - Ordinal(day)]
        ELSE [f EXCEPT !.daysLeft = 0]

\* The body of the loop over response.upcomingFestivals: the copy with the
\* long date and the days left, or the festival as it is when strptime raises.
NormalizeFestival(f, day) ==
    LET dt == Strptime(f.date)
    IN  IF dt.ok
        THEN [f EXCEPT !.date = Strftime(dt), !.daysLeft = Ordinal(dt) - Ordinal(day)]
        ELSE f

NoReport == [status |-> 0, plan |-> EmptyPlan]

\* HTTPException(500) of the outer except clause.
ReportError == [status |-> 500, plan |-> EmptyPlan]

\* The handler from the return of chain.invoke to its response;
\* model_validate (line 299) gives back the PlannerResponse it is given.
FullReport(c, day) ==
    LET raw == ChainInvoke(c)
        clean == CleanResponse(raw)
    IN  IF raw.kind = "raise" THEN ReportError
        ELSE [status |-> 200,
              plan |-> [clean.plan EXCEPT !.upcomingFestivals =
                           [i \in 1..Len(@) |-> NormalizeFestival(@[i], day)]]]

\* The days the handler is run on.
Todays == {[y |-> 2025, m |-> 1, d |-> 1], [y |-> 2024, m |-> 3, d |-> 1]}

IdleReport ==
    /\ rpc = "idle"
    /\ today = [y |-> 2025, m |-> 1, d |-> 1]
    /\ completion = NoCompletion
    /\ report = NoReport

InitReport ==
    /\ rpc = "idle"
    /\ today \in Todays
    /\ completion = NoCompletion
    /\ report = NoReport

\* A request arrives, takes the lock and calls the provider.
ReportStart ==
    /\ rpc = "idle"
    /\ rpc' = "invoking"
    /\ UNCHANGED <<today, completion, report, plannerVars, summaryVars, trendsVars,
                   bucketVars, listingVars, imagesVars>>

\* The provider call raises: HTTP 500.
ReportProviderError ==
    /\ rpc = "invoking"
    /\ rpc' = "done"
    /\ report' = ReportError
    /\ UNCHANGED <<today, completion, plannerVars, summaryVars, trendsVars,
                   bucketVars, listingVars, imagesVars>>

\* The model answers: the chain parses the answer and the rest of the body
\* runs.
ReportReturn(c) ==
    /\ rpc = "invoking"
    /\ rpc' = "done"
    /\ completion' = c
    /\ report' = FullReport(c, today)
    /\ UNCHANGED <<today, plannerVars, summaryVars, trendsVars,
                   bucketVars, listingVars, imagesVars>>

NextReport ==
    \/ ReportStart
    \/ ReportProviderError
    \/ \E c \in Completions : ReportReturn(c)

----------------------------------------------------------------------------
(* Specifications                                                           *)

\* The dashboard when it is not the endpoint under study: configured, idle.
IdleSummary == InitSummary /\ groq_model

Init == InitPlanner /\ IdleSummary /\ InitTrends /\ IdleBucket /\ InitListing /\ InitImages /\ IdleReport

SpecPlanner == Init /\ [][NextPlanner]_vars

\* The dashboard with its model constructed or not.
InitSummarySpec == InitPlanner /\ InitSummary /\ InitTrends /\ IdleBucket /\ InitListing /\ InitImages /\ IdleReport

SpecSummary == InitSummarySpec /\ [][NextSummary]_vars

SpecTrends == Init /\ [][NextTrends]_vars

SpecListing == Init /\ [][NextListing]_vars

SpecImages == Init /\ [][NextImages]_vars

\* One /full-report request, on each of the days.
InitReportSpec ==
    /\ InitPlanner /\ IdleSummary /\ InitTrends /\ IdleBucket /\ InitListing /\ InitImages
    /\ InitReport

SpecReport == InitReportSpec /\ [][NextReport]_vars

\* The bucketing applied to every percentage of [0, 100].
InitBucket ==
    /\ InitPlanner /\ IdleSummary /\ InitTrends /\ InitListing /\ InitImages /\ IdleReport
    /\ bpct \in 0..MaxPct
    /\ bout = [model |-> NoBucket, random |-> NoBucket]

SpecBucket == InitBucket /\ [][NextBucket]_vars

\* The event loop resumes a woken waiter, and every provider call returns or
\* raises; nothing obliges a request to arrive.
FairSpecPlanner ==
    /\ SpecPlanner
    /\ \A r \in PReqs :
        /\ WF_vars(PlannerWake(r))
        /\ WF_vars(\E out \in PlannerOutcomes : PlannerReturn(r, out))

----------------------------------------------------------------------------
(* The async handlers on the one event loop of the process                  *)

\* The thread of the event loop is inside a handler and cannot run any other:
\* a /summary handler is in time.sleep (dashboard_routes.py:108), or a
\* /full-report handler is in the synchronous chain.invoke
\* (planner_routes.py:284).  An awaited call (chain.ainvoke, gather) gives
\* the thread back to the loop.
LoopBusy ==
    \/ \E q \in SReqs : spc[q] = "cooldown"
    \/ \E r \in PReqs : ppc[r] = "invoking"

\* A /full-report handler starts when the loop runs it, and holds the thread
\* from there to the end of its provider call, so no other handler ever
\* finds the lock taken.
LoopPlannerStart(r) == ~LoopBusy /\ PlannerStart(r)

\* chain.invoke returns in the thread it blocked.
LoopPlannerReturn(r, out) == LoopBusy /\ PlannerReturn(r, out)

LoopSummaryStart(q) == ~LoopBusy /\ SummaryStart(q)

\* The loop resumes the handler that awaited chain.ainvoke.
LoopSummaryFirstReturn(q, out) == ~LoopBusy /\ SummaryFirstReturn(q, out)

\* time.sleep returns in the thread it blocked.
LoopSummaryCooldown(q) == LoopBusy /\ SummaryCooldown(q)

LoopSummaryRetryReturn(q, out) == ~LoopBusy /\ SummaryRetryReturn(q, out)

\* The steps of the listing handler, each run by the loop.
ListingStep ==
    \/ \E opts \in OptionInputs, image \in BOOLEAN, key \in BOOLEAN :
           ListingStart(opts, image, key)
    \/ \E ok \in BOOLEAN : ListingVision(ok)
    \/ \E t \in TypeSet, ok \in BOOLEAN : ListingPart(t, ok)
    \/ ListingAssemble

LoopListingStep == ~LoopBusy /\ ListingStep

\* One request to each of /full-report, /summary and the listing endpoint.
NextLoop ==
    \/ LoopPlannerStart(1)
    \/ \E out \in PlannerOutcomes : LoopPlannerReturn(1, out)
    \/ LoopSummaryStart(1)
    \/ \E out \in ChainOutcomes : LoopSummaryFirstReturn(1, out)
    \/ LoopSummaryCooldown(1)
    \/ \E out \in ChainOutcomes : LoopSummaryRetryReturn(1, out)
    \/ LoopListingStep

SpecLoop == Init /\ [][NextLoop]_vars

\* C1: at most one /full-report request is inside the generation section at
\* any time, so no two provider calls of the endpoint overlap.
C1_OneInSection == Cardinality({r \in PReqs : ppc[r] = "invoking"}) <= 1

\* A request is in its provider call while another one waits for the lock.
C1_Witness == \E r, q \in PReqs : ppc[r] = "invoking" /\ ppc[q] = "waiting"

\* C2: every request that waits for the lock is eventually answered (a
\* report or a 500), also behind a holder that failed, and the lock is held
\* only while some request is inside the section.
C2_WaitersServed ==
    /\ \A r \in PReqs :
        (ppc[r] = "waiting") ~> (ppc[r] = "done" /\ presp[r] \in {"report", "500"})
    /\ [](lock.locked => \E r \in PReqs : ppc[r] = "invoking")

\* A request that waited was served right after a holder that answered 500.
C2_Witness ==
    \E i \in 1..(Len(served) - 1) :
        /\ presp[served[i]] = "500"
        /\ served[i + 1] \in pwaited
        /\ ppc[served[i + 1]] = "done"

\* The sample texts that contain "rate_limit" in any letter case, or "429".
RateLimitTexts == {ErrTexts[1], ErrTexts[2], ErrTexts[3], ErrTexts[4], ErrTexts[7]}

\* C3: a /summary request invokes the chain at most twice; the second
\* invocation happens exactly when the first failed with a rate-limit text,
\* and only after the 90-second cooldown; no other failure is retried.
C3_RetryOnce ==
    \A q \in SReqs :
        /\ calls[q] <= 2
        /\ calls[q] = 2 => err1[q] \in RateLimitTexts /\ slept[q] = CooldownSeconds
        /\ calls[q] < 2 => slept[q] = 0
        /\ (spc[q] = "done" /\ err1[q] \in RateLimitTexts) => calls[q] = 2
        /\ (spc[q] = "done" /\ err1[q] # <<>> /\ err1[q] \notin RateLimitTexts)
               => calls[q] = 1

\* A request whose retry failed with a rate-limit text too has answered
\* after two invocations.
C3_Witness ==
    \E q \in SReqs :
        spc[q] = "done" /\ calls[q] = 2 /\ err2[q] \in RateLimitTexts

\* C4: a /summary request that reached the model answers 200 with all four
\* fields: the model's summary when an invocation succeeded, the static
\* fallback when every invocation it made failed.
C4_AlwaysSummary ==
    \A q \in SReqs :
        (spc[q] = "done" /\ calls[q] >= 1) =>
            /\ sresp[q].status = 200
            /\ sresp[q].fields = SummaryFields
            /\ sresp[q].source \in {"model", "fallback"}
            /\ sresp[q].source = "fallback"
                   <=> (err1[q] # <<>> /\ (calls[q] = 2 => err2[q] # <<>>))

\* The primary invocation and the retry both failed and the fallback was
\* returned.
C4_Witness ==
    \E q \in SReqs :
        /\ spc[q] = "done" /\ calls[q] = 2 /\ err2[q] # <<>>
        /\ sresp[q] = Fallback

\* The trend records of a response, error elements left out.
TrendRecords == {i \in 1..Len(all_trends) : ~IsError(all_trends[i])}

\* C5 (as claimed): every returned TrendRecord has its pct_change in [0, 70].
C5_PctInRange ==
    tpc = "done" =>
        \A i \in TrendRecords :
            all_trends[i].pct_change >= 0 /\ all_trends[i].pct_change <= 700

\* The label and the score the claim gives a percentage (in tenths).
ClaimedLabel(pct) == IF pct >= 350 THEN "High" ELSE IF pct >= 150 THEN "Medium" ELSE "Low"
ClaimedScore(pct) == IF pct >= 350 THEN 85 ELSE IF pct >= 150 THEN 55 ELSE 20

\* C6 (as claimed): in every returned TrendRecord the popularity label and
\* the popularity_score are those of the bucket of its pct_change.
C6_LabelMatchesBucket ==
    tpc = "done" =>
        \A i \in TrendRecords :
            /\ all_trends[i].popularity = ClaimedLabel(all_trends[i].pct_change)
            /\ all_trends[i].popularity_score = ClaimedScore(all_trends[i].pct_change)

\* C7: on every percentage of [0, 100] the bucketing gives High/85 from 35.0,
\* Medium/55 from 15.0 and below 35.0, Low/20 below 15.0, and its two copies
\* (model-supplied and generated percentages) agree.
C7_BucketTotal ==
    bout.model # NoBucket =>
        /\ bout.model = [label |-> ClaimedLabel(bpct), score |-> ClaimedScore(bpct)]
        /\ bout.random = bout.model

\* Both copies have put 15.0 into Medium.
C7_Witness ==
    /\ bpct = 150
    /\ bout.model.label = "Medium" /\ bout.random.score = 55

\* Did the try block of the city with this outcome raise?
Raised(out) ==
    \/ out.kind # "reply"
    \/ out.span = "bad"
    \/ \E k \in 1..Len(out.items) : ~out.items[k].dict

\* A finished request over two cities of which exactly one failed.
OneOfTwoFailed(f, g) ==
    /\ tpc = "done" /\ Len(cities) = 2
    /\ {f, g} = {1, 2}
    /\ Raised(tlog[f]) /\ ~Raised(tlog[g])

\* C8 (as claimed): with one of two cities failing, trends has length 2: the
\* failing city's {city, error} and one record for the other city.
C8_LengthTwo ==
    \A f, g \in 1..2 :
        OneOfTwoFailed(f, g) =>
            /\ Len(all_trends) = 2
            /\ IsError(all_trends[f]) /\ all_trends[f].city = cities[f]
            /\ ~IsError(all_trends[g])

\* C8 (amended): with one of two cities failing, the failing city gives
\* exactly one {city, error} element and the other city every record of its
\* reply, none removed, so trends has length 1 plus the number of elements
\* the model sent for the succeeding city; each record carries pct_change,
\* change_pct, popularity_score and popularity.
C8_PartialResult ==
    \A f, g \in 1..2 :
        OneOfTwoFailed(f, g) =>
            /\ Len(all_trends) = 1 + Len(tlog[g].items)
            /\ \A i \in 1..Len(all_trends) :
                IF all_trends[i].src = f
                THEN /\ IsError(all_trends[i])
                     /\ all_trends[i].city = cities[f]
                     /\ Cardinality({k \in 1..Len(all_trends) : all_trends[k].src = f}) = 1
                ELSE /\ all_trends[i].src = g
                     /\ {"pct_change", "change_pct", "popularity_score", "popularity"}
                            \subseteq DOMAIN all_trends[i]

\* The first city failed and the second one gave two records: length 3.
C8_Witness ==
    /\ OneOfTwoFailed(1, 2)
    /\ Len(tlog[2].items) = 2
    /\ Len(all_trends) = 3

\* The requested parts whose sub-generation returned an object.
Succeeded == {t \in TypeSet : tasks[t] = t}

\* C9: a successful listing response has at least one of its three slots
\* set, and a request all of whose sub-generations failed ends as HTTP 500.
C9_NeverAllNull ==
    lpc = "done" =>
        /\ final_content.status \in {200, 500}
        /\ final_content.status = 200 => final_content.slots # {}
        /\ Succeeded = {} => final_content.status = 500

\* Every requested sub-generation failed and the request ended as HTTP 500.
C9_Witness ==
    /\ lpc = "done"
    /\ content_options.requested = TypeSet
    /\ \A t \in TypeSet : tasks[t] = "None"
    /\ final_content = ServiceError

\* C10: the response is assembled only when every requested sub-generation
\* has ended; it is a success whenever one of them succeeded, and its slots
\* are exactly the requested types that succeeded (the others null).
C10_PartsIndependent ==
    lpc = "done" =>
        /\ \A t \in TypeSet : tasks[t] # "pending"
        /\ Succeeded # {} => final_content.status = 200
        /\ final_content.status = 200 =>
               /\ final_content.slots = Succeeded
               /\ final_content.slots \subseteq content_options.requested

\* With all three requested and the WhatsApp part failed, the response is a
\* success with the other two slots set.
C10_Witness ==
    /\ lpc = "done"
    /\ content_options.requested = TypeSet
    /\ tasks["whatsapp"] = "None"
    /\ final_content = [status |-> 200, slots |-> {"seo", "conversational"}]

\* C11: the images of a /feature-images response are at most six, every one
\* of them starts with "http", and each is the URL of a hit that has one: a
\* hit with neither an original nor a thumbnail URL gives no image.
C11_ImagesBounded ==
    (ipc = "done" /\ ~iresp.error) =>
        /\ Len(iresp.images) <= 6
        /\ \A i \in 1..Len(iresp.images) :
               LET u == iresp.images[i]
               IN  /\ Len(u) >= 4
                   /\ u[1] = "h" /\ u[2] = "t" /\ u[3] = "t" /\ u[4] = "p"
                   /\ \E k \in 1..Len(image_results) :
                          u \in {image_results[k].original, image_results[k].thumbnail}
        /\ Len(iresp.images) <=
               Cardinality({k \in 1..Len(image_results) :
                               image_results[k].original # <<>>
                                   \/ image_results[k].thumbnail # <<>>})

\* More than six hits with an http URL and one hit with none: six images.
C11_Witness ==
    /\ ipc = "done" /\ ~iresp.error
    /\ Len(iresp.images) = 6
    /\ Len(image_results) = 7
    /\ \E k \in 1..Len(image_results) :
           image_results[k].original = <<>> /\ image_results[k].thumbnail = <<>>

\* Positions of the brackets of a reply text.
Opens(t) == {i \in 1..Len(t) : t[i] = "["}
Closes(t) == {j \in 1..Len(t) : t[j] = "]"}
HasSpan(t) == \E i \in Opens(t), j \in Closes(t) : i < j

\* C15: a reply without a [...] span is read as the empty array: its city adds
\* no record and no error element and the loop goes on to the next city; of a
\* reply with a span, the text from its first "[" to its last "]" is taken.
C15_NoSpanIsEmpty ==
    /\ tpc = "loop" => ti = Len(tlog) + 1
    /\ tpc = "done" => Len(tlog) = Len(cities)
    /\ \A i \in 1..Len(tlog) :
        tlog[i].kind = "reply" =>
            LET t == tlog[i].text
                opens == Opens(t)
                closes == Closes(t)
            IN  IF HasSpan(t)
                THEN \E a \in opens, b \in closes :
                        /\ \A o \in opens : a <= o
                        /\ \A c \in closes : c <= b
                        /\ cleaned[i] = SubSeq(t, a, b)
                ELSE /\ cleaned[i] = <<"[", "]">>
                     /\ \A k \in 1..Len(all_trends) : all_trends[k].src # i

\* The first city's reply has no span (though it has brackets), the second
\* city's reply has one with further brackets inside and gave a record.
C15_Witness ==
    /\ tpc = "done"
    /\ Len(tlog) = 2
    /\ tlog[1].kind = "reply" /\ ~HasSpan(tlog[1].text) /\ Opens(tlog[1].text) # {}
    /\ tlog[2].kind = "reply" /\ HasSpan(tlog[2].text)
    /\ Cardinality(Closes(tlog[2].text)) > 1
    /\ \E k \in 1..Len(all_trends) : all_trends[k].src = 2 /\ ~IsError(all_trends[k])

\* What the city at place i of the request put into all_trends, in order.
Contribution(i) == SelectSeq(all_trends, LAMBDA rec : rec.src = i)

\* The element has no change_pct key, or a value without a digit in it.
NoNumber(e) ==
    \/ e.change_pct = 0
    \/ \A j \in 1..Len(PctTexts[e.change_pct]) :
           PctTexts[e.change_pct][j] \notin DigitSet

\* C16: an element of a city's reply without a change_pct, or with one that
\* holds no number, is not an error: its record has a generated pct_change in
\* [3.0, 65.0], the bucket score of that value as popularity_score, and that
\* value followed by "%" as change_pct; the city gets no {city, error} for it.
C16_MissingPctGenerated ==
    \A i \in 1..Len(tlog) :
        ~Raised(tlog[i]) =>
            /\ Len(Contribution(i)) = Len(tlog[i].items)
            /\ \A k \in 1..Len(tlog[i].items) :
                   NoNumber(tlog[i].items[k]) =>
                       LET rec == Contribution(i)[k]
                           txt == rec.change_pct
                       IN  /\ ~IsError(rec)
                           /\ rec.pct_change \in 30..650
                           /\ rec.popularity_score = ClaimedScore(rec.pct_change)
                           /\ txt[Len(txt)] = "%"
                           /\ ExtractPct(SubSeq(txt, 1, Len(txt) - 1)) =
                                  SmallPct(rec.pct_change, FALSE)

\* A reply with an element without the key and one whose change_pct is "n/a",
\* drawn at the two ends of the generated range.
C16_Witness ==
    /\ tpc = "done"
    /\ \E i \in 1..Len(tlog) :
        /\ ~Raised(tlog[i]) /\ Len(tlog[i].items) = 2
        /\ tlog[i].items[1].change_pct = 0 /\ tlog[i].items[2].change_pct = 4
        /\ Contribution(i)[1].pct_change = 30 /\ Contribution(i)[1].popularity_score = 20
        /\ Contribution(i)[2].pct_change = 650 /\ Contribution(i)[2].popularity_score = 85

\* C18: every city that was processed has put into trends either all the
\* records of its reply and no error element, or exactly one {city, error}
\* that names it and no record (also when some of its elements had been
\* processed before the failure); the contributions stand in request order.
C18_AllOrError ==
    /\ \A a, b \in 1..Len(all_trends) : a <= b => all_trends[a].src <= all_trends[b].src
    /\ \A k \in 1..Len(all_trends) : all_trends[k].src \in 1..Len(tlog)
    /\ \A i \in 1..Len(tlog) :
        LET c == Contribution(i)
        IN  IF Raised(tlog[i])
            THEN Len(c) = 1 /\ IsError(c[1]) /\ c[1].city = cities[i]
            ELSE /\ Len(c) = Len(tlog[i].items)
                 /\ \A k \in 1..Len(c) : ~IsError(c[k])

\* The first city's reply has a record and then an element that is not an
\* object; the second city's reply has two records.
C18_Witness ==
    /\ tpc = "done" /\ Len(tlog) = 2
    /\ tlog[1].kind = "reply" /\ tlog[1].span = "array" /\ Len(tlog[1].items) = 2
    /\ tlog[1].items[1].dict /\ ~tlog[1].items[2].dict
    /\ Len(all_trends) = 3
    /\ IsError(all_trends[1]) /\ all_trends[1].city = cities[1]
    /\ ~IsError(all_trends[2]) /\ ~IsError(all_trends[3])

\* The long forms of the date texts that name a day of the calendar, in the
\* order of DateTexts (<<>>: the text is not such a date), and the days from
\* each of the two days to them.
C12_Long ==
    << <<"J", "a", "n", "u", "a", "r", "y", " ", "2", "6", ",", " ", "2", "0", "2", "5">>,
       <<"D", "e", "c", "e", "m", "b", "e", "r", " ", "2", "5", ",", " ", "2", "0", "2", "4">>,
       <<"F", "e", "b", "r", "u", "a", "r", "y", " ", "2", "9", ",", " ", "2", "0", "2", "4">>,
       <<"M", "a", "r", "c", "h", " ", "0", "9", ",", " ", "2", "0", "2", "5">>,
       <<>>, <<>>, <<>>,
       <<"J", "a", "n", "u", "a", "r", "y", " ", "2", "6", ",", " ", "2", "0", "2", "5">> >>

C12_Days ==
    IF today = [y |-> 2025, m |-> 1, d |-> 1]
    THEN <<25, 0 - 7, 0 - 307, 67, 0, 0, 0, 25>>
    ELSE <<331, 299, 0 - 1, 373, 0, 0, 0, 331>>

C12_Index(text) == CHOOSE i \in 1..Len(DateTexts) : DateTexts[i] = text

\* C12: in a report, a festival whose date is a day written year-month-day
\* has daysLeft set to the days from today to it (negative when it is past)
\* and its date in the long form; a festival with any other date is returned
\* as it came; normalizing a returned festival again changes nothing; the
\* list keeps its length and order.
C12_DatesNormalized ==
    (rpc = "done" /\ report.status = 200 /\ ~completion.wrapped) =>
        LET in == completion.plan.upcomingFestivals
            out == report.plan.upcomingFestivals
        IN  /\ Len(out) = Len(in)
            /\ \A k \in 1..Len(in) :
                   LET i == C12_Index(in[k].date)
                   IN  /\ out[k].name = in[k].name
                       /\ IF C12_Long[i] # <<>>
                          THEN /\ out[k].date = C12_Long[i]
                               /\ out[k].daysLeft = C12_Days[i]
                          ELSE out[k] = in[k]
                       /\ NormalizeFestival(out[k], today) = out[k]

\* On 2025-01-01, a festival on 2025-01-26 and one whose date is February 30.
C12_Witness ==
    /\ rpc = "done" /\ report.status = 200 /\ ~completion.wrapped
    /\ today = [y |-> 2025, m |-> 1, d |-> 1]
    /\ Len(report.plan.upcomingFestivals) = 2
    /\ completion.plan.upcomingFestivals[1].date = DateTexts[1]
    /\ report.plan.upcomingFestivals[1].daysLeft = 25
    /\ report.plan.upcomingFestivals[1].date = C12_Long[1]
    /\ completion.plan.upcomingFestivals[2].date = DateTexts[5]
    /\ report.plan.upcomingFestivals[2].daysLeft = 7

\* C13 (as claimed): a festival that lacks a required field or has a bad date
\* does not abort the request: the report is returned with as many festivals
\* as the model sent, the well-formed ones normalized.
C13_ElementIsolated ==
    (rpc = "done" /\ completion.json /\ ~completion.wrapped) =>
        LET in == completion.plan.upcomingFestivals
            out == report.plan.upcomingFestivals
        IN  /\ report.status = 200
            /\ Len(out) = Len(in)
            /\ \A k \in 1..Len(in) :
                   (in[k].missing = {} /\ C12_Long[C12_Index(in[k].date)] # <<>>) =>
                       /\ out[k].name = in[k].name
                       /\ out[k].date = C12_Long[C12_Index(in[k].date)]

\* C17 (as claimed): the plan sent under the key "InventoryPlan" is the plan
\* of the report: its five lists have the elements of the inner value.
C17_WrapperRemoved ==
    (/\ rpc = "done" /\ completion.json /\ completion.wrapped
     /\ \A k \in 1..Len(completion.plan.upcomingFestivals) :
            completion.plan.upcomingFestivals[k].missing = {}) =>
        /\ report.status = 200
        /\ Len(report.plan.upcomingFestivals) = Len(completion.plan.upcomingFestivals)
        /\ \A k \in 1..Len(report.plan.upcomingFestivals) :
               report.plan.upcomingFestivals[k].name = completion.plan.upcomingFestivals[k].name
        /\ report.plan.topProductsToStock = completion.plan.topProductsToStock
        /\ report.plan.nearbyDemand = completion.plan.nearbyDemand
        /\ report.plan.avoidProducts = completion.plan.avoidProducts
        /\ report.plan.aiRecommendations = completion.plan.aiRecommendations

\* C14 (as claimed): while a /summary request is in its cooldown wait, or a
\* /full-report request is inside its generation section, a listing request
\* that has a step to take can take it.
C14_OthersProgress ==
    (LoopBusy /\ ENABLED ListingStep) => ENABLED LoopListingStep

====
